---- MODULE Spec2Model ----
(***************************************************************************)
(* Beam propagation of crawl-ref/source/beam.cc: the bolt state machine    *)
(* (fire / do_fire / affect_cell / hit_wall / bounce / affect_endpoint /   *)
(* explode) over a small dungeon grid, in live and in tracer mode.         *)
(***************************************************************************)
EXTENDS Integers, Sequences, FiniteSets, TLC

(* ---------------------------------------------------------------------- *)
(* Bounds of the model                                                     *)
(* ---------------------------------------------------------------------- *)
GXM == 8
GYM == 7
MaxRuns == 2
MaxRoll == 2

(* ---------------------------------------------------------------------- *)
(* Program constants                                                       *)
(* AUTOMATIC_HIT, LOS_RADIUS, INT_MAX and NON_MONSTER are set in headers   *)
(* outside beam.cc.  NON_MONSTER is the index that names no monster: 0     *)
(* here, where the monster indices MonIds start at 1.  BOUNCE_COST is the  *)
(* literal that bolt::bounce adds to range_used, MUNGE_TRIES the literal   *)
(* that limits the loop of _munge_bounced_bolt.                            *)
(* ---------------------------------------------------------------------- *)
BEAM_STOP == 1000
AUTOMATIC_HIT == 1500
LOS_RADIUS == 8
MAX_EXPLOSION_RADIUS == 9
INT_MAX == 2147483647
NON_MONSTER == 0
BOUNCE_COST == 2
MUNGE_TRIES == 20

(* ---------------------------------------------------------------------- *)
(* Coordinates and the map                                                 *)
(* ---------------------------------------------------------------------- *)
Cells == (0 .. GXM - 1) \X (0 .. GYM - 1)

in_bounds(p) == /\ p[1] > 0 /\ p[1] < GXM - 1
                /\ p[2] > 0 /\ p[2] < GYM - 1

map_bounds(p) == /\ p[1] >= 0 /\ p[1] <= GXM - 1
                 /\ p[2] >= 0 /\ p[2] <= GYM - 1

Add(p, d) == <<p[1] + d[1], p[2] + d[2]>>
Sub(p, d) == <<p[1] - d[1], p[2] - d[2]>>
Abs(n) == IF n < 0 THEN -n ELSE n
Sgn(n) == IF n < 0 THEN -1 ELSE IF n > 0 THEN 1 ELSE 0
Max(a, b) == IF a >= b THEN a ELSE b
Min(a, b) == IF a <= b THEN a ELSE b
rdist(d) == Max(Abs(d[1]), Abs(d[2]))
abs2(d) == d[1] * d[1] + d[2] * d[2]
grid_distance(p, q) == rdist(Sub(p, q))

Walls == {"DNGN_ROCK_WALL", "DNGN_CLEAR_ROCK_WALL", "DNGN_STONE_WALL",
          "DNGN_METAL_WALL", "DNGN_GREEN_CRYSTAL_WALL", "DNGN_WAX_WALL",
          "DNGN_PERMAROCK_WALL"}
Features == Walls \cup {"DNGN_FLOOR", "DNGN_TREES", "DNGN_GRANITE_STATUE",
                        "DNGN_CLOSED_DOOR", "DNGN_SECRET_DOOR"}

feat_is_wall(f) == f \in Walls
feat_is_closed_door(f) == f = "DNGN_CLOSED_DOOR"
feat_is_solid(f) == f # "DNGN_FLOOR"

(* grd lookup; off-map cells read as the permanent border rock *)
Grd(s, p) == IF map_bounds(p) THEN s.grd[p] ELSE "DNGN_PERMAROCK_WALL"
cell_is_solid(s, p) == feat_is_solid(Grd(s, p))

(* ---------------------------------------------------------------------- *)
(* Rays restricted to the eight compass directions                         *)
(* ---------------------------------------------------------------------- *)
Compass == << <<0, -1>>, <<1, -1>>, <<1, 0>>, <<1, 1>>,
              <<0, 1>>, <<-1, 1>>, <<-1, 0>>, <<-1, -1>> >>

find_ray(source, target) ==
    [pos |-> source,
     dir |-> <<Sgn(target[1] - source[1]), Sgn(target[2] - source[2])>>]

ray_advance(ray) == [ray EXCEPT !.pos = Add(ray.pos, ray.dir)]
ray_regress(ray) == [ray EXCEPT !.pos = Sub(ray.pos, ray.dir)]

(* mirror the direction across the solid neighbours of the ray position *)
ray_bounce(s, ray) ==
    LET p  == ray.pos
        dx == ray.dir[1]
        dy == ray.dir[2]
        sx == dx # 0 /\ cell_is_solid(s, <<p[1] + dx, p[2]>>)
        sy == dy # 0 /\ cell_is_solid(s, <<p[1], p[2] + dy>>)
        sd == cell_is_solid(s, <<p[1] + dx, p[2] + dy>>)
        both == (~sx /\ ~sy /\ sd) \/ (sx /\ sy)
    IN  [ray EXCEPT !.dir = <<IF sx \/ both THEN -dx ELSE dx,
                              IF sy \/ both THEN -dy ELSE dy>>]

(* ---------------------------------------------------------------------- *)
(* Random draws: a draw is a number the environment picks                  *)
(* ---------------------------------------------------------------------- *)
Rolls == 0 .. MaxRoll
random2(n, x) == IF n <= 1 THEN 0 ELSE x % n
random_range(lo, hi, x) == IF hi <= lo THEN lo ELSE lo + (x % (hi - lo + 1))
maybe_random2(n, random_factor, x) ==
    IF random_factor THEN random2(n, x) ELSE n \div 2

(* ---------------------------------------------------------------------- *)
(* Flavours and kill types                                                 *)
(* ---------------------------------------------------------------------- *)
Enchantments == {"BEAM_SLOW", "BEAM_HASTE", "BEAM_DIGGING",
                 "BEAM_DISINTEGRATION"}
RealFlavours == Enchantments \cup {"BEAM_MISSILE", "BEAM_MMISSILE",
                 "BEAM_FIRE", "BEAM_COLD", "BEAM_ELECTRICITY", "BEAM_FRAG",
                 "BEAM_NUKE", "BEAM_HELLFIRE", "BEAM_LAVA"}
ChaosFlavours == {"BEAM_FIRE", "BEAM_SLOW"}

YOU_KILL(thrower) == thrower \in {"KILL_YOU", "KILL_YOU_MISSILE"}
MON_KILL(thrower) == thrower \in {"KILL_MON", "KILL_MON_MISSILE"}

mons_att_wont_attack(att) == att \in {"ATT_FRIENDLY", "ATT_GOOD_NEUTRAL"}
mons_atts_aligned(a, b) == mons_att_wont_attack(a) = mons_att_wont_attack(b)

(* ---------------------------------------------------------------------- *)
(* Monsters                                                                *)
(* ---------------------------------------------------------------------- *)
MonIds == 1 .. 2

mons_ac(m) == m.ac
mons_ev(m) == 3
mons_power(m) == IF m.type = "MONS_ORC" THEN 3 ELSE 2
mons_wall_shielded(m) == m.type = "MONS_ROCK_WORM"
mons_res_fire(m) == IF m.type = "MONS_FIRE_ELEMENTAL" THEN 3 ELSE m.res
mons_res_elec(m) == m.res
(* the resistance mons_adjust_flavoured reads for a flavour: res_fire,     *)
(* res_steam, res_cold, res_elec, res_acid, res_poison,                    *)
(* res_negative_energy, res_rotting, res_holy_energy                       *)
mons_res(m, flavour) ==
    CASE flavour \in {"BEAM_FIRE", "BEAM_LAVA", "BEAM_HELLFIRE"} ->
           mons_res_fire(m)
      [] flavour = "BEAM_ELECTRICITY" -> mons_res_elec(m)
      [] OTHER -> m.res
mons_shield_bonus(m) == IF m.shield = "none" THEN 0 ELSE 1
mons_alive(m) == m.hp > 0

monster_at(s, p) ==
    IF \E i \in MonIds : s.mons[i].pos = p /\ mons_alive(s.mons[i])
    THEN CHOOSE i \in MonIds : s.mons[i].pos = p /\ mons_alive(s.mons[i])
    ELSE NON_MONSTER

(* ---------------------------------------------------------------------- *)
(* tracer_info                                                             *)
(* ---------------------------------------------------------------------- *)
tracer_info_reset ==
    [count |-> 0, power |-> 0, hurt |-> 0, helped |-> 0, dont_stop |-> FALSE]

(* faulty variant: the power of the other tally is dropped                *)
tracer_info_add_no_power(a, o) ==
    [count |-> a.count + o.count, power |-> a.power,
     hurt |-> a.hurt + o.hurt, helped |-> a.helped + o.helped,
     dont_stop |-> a.dont_stop \/ o.dont_stop]

tracer_info_add(a, o) ==
    [count |-> a.count + o.count, power |-> a.power + o.power,
     hurt |-> a.hurt + o.hurt, helped |-> a.helped + o.helped,
     dont_stop |-> a.dont_stop \/ o.dont_stop]

(* ---------------------------------------------------------------------- *)
(* Bolt predicates.  A threaded state s carries the acting bolt s.b and    *)
(* the world: s.grd, s.mons, s.you, s.cgrid, s.igrd, s.msgs, s.prompts;    *)
(* s.struck lists the cells whose occupant the current live firing has    *)
(* affected: damage applied, or an enchantment attempted.                 *)
(* ---------------------------------------------------------------------- *)
pos(b) == IF b.in_explosion_phase \/ b.use_target_as_pos
          THEN b.target ELSE b.ray.pos

is_enchantment(b) == b.flavour \in Enchantments

invisible(b) == is_enchantment(b)

is_blockable(b) ==
    ~b.is_beam /\ ~b.is_explosion /\ b.flavour # "BEAM_ELECTRICITY"

is_fiery(b) == b.flavour \in {"BEAM_FIRE", "BEAM_HELLFIRE", "BEAM_LAVA"}

is_superhot(b) ==
    /\ is_fiery(b)
    /\ \/ b.name \in {"bolt of fire", "bolt of magma", "fireball"}
       \/ (b.name = "hellfire" /\ b.in_explosion_phase)

affects_wall(b, wall) ==
    \/ b.flavour = "BEAM_DIGGING"
    \/ (b.flavour = "BEAM_DISINTEGRATION" /\ b.damage.num >= 3)
    \/ (is_fiery(b) /\ wall \in {"DNGN_WAX_WALL", "DNGN_TREES"})
    \/ b.flavour = "BEAM_NUKE"
    \/ b.flavour = "BEAM_FRAG"

is_bouncy(b, feat) ==
    IF b.real_flavour = "BEAM_CHAOS" /\ feat_is_solid(feat) THEN TRUE
    ELSE IF is_enchantment(b) THEN FALSE
    ELSE IF b.flavour = "BEAM_ELECTRICITY" /\ feat # "DNGN_METAL_WALL" THEN TRUE
    ELSE IF b.flavour \in {"BEAM_FIRE", "BEAM_COLD"}
            /\ feat = "DNGN_GREEN_CRYSTAL_WALL" THEN TRUE
    ELSE FALSE

(* a faulty variant: a bolt aimed at a spot flies on past it *)
stop_at_target_blast(b) == b.is_explosion \/ b.is_big_cloud

stop_at_target(b) == b.is_explosion \/ b.is_big_cloud \/ b.aimed_at_spot

found_player(s) == grid_distance(pos(s.b), s.you.pos) <= 0

(* faulty variant: electricity reaches the monster through any wall       *)
can_affect_wall_monster_any_wall(s, m) ==
    IF is_enchantment(s.b) THEN TRUE
    ELSE LET superconductor == s.b.flavour = "BEAM_ELECTRICITY"
         IN  IF mons_wall_shielded(m) /\ ~superconductor THEN FALSE
             ELSE IF ~s.b.is_explosion /\ ~s.b.is_big_cloud THEN TRUE
             ELSE FALSE

can_affect_wall_monster(s, m) ==
    IF is_enchantment(s.b) THEN TRUE
    ELSE LET superconductor ==
                 Grd(s, m.pos) = "DNGN_METAL_WALL"
                 /\ s.b.flavour = "BEAM_ELECTRICITY"
         IN  IF mons_wall_shielded(m) /\ ~superconductor THEN FALSE
             ELSE IF ~s.b.is_explosion /\ ~s.b.is_big_cloud THEN TRUE
             ELSE FALSE

(* faulty variant: a hit costs a non-beam one unit instead of BEAM_STOP    *)
range_used_on_hit_unit(b) ==
    IF b.is_beam /\ is_enchantment(b) /\ b.flavour = "BEAM_DIGGING" THEN 0
    ELSE IF b.is_beam /\ b.flavour = "BEAM_ELECTRICITY" THEN 0
    ELSE 1

(* faulty variant: every tracer, not only the player's, takes a stopping   *)
(* hit for a miss                                                          *)
range_used_on_hit_tracer(b) ==
    LET used == IF ~b.is_beam THEN BEAM_STOP
                ELSE IF is_enchantment(b)
                     THEN (IF b.flavour = "BEAM_DIGGING" THEN 0 ELSE BEAM_STOP)
                ELSE IF b.name = "hellfire" THEN 0
                ELSE IF b.is_explosion \/ b.is_big_cloud THEN BEAM_STOP
                ELSE IF b.flavour = "BEAM_ACID" THEN BEAM_STOP
                ELSE IF b.flavour = "BEAM_ELECTRICITY" THEN 0
                ELSE 1
    IN  IF b.is_tracer /\ used = BEAM_STOP THEN 1 ELSE used

range_used_on_hit(b) ==
    LET used == IF ~b.is_beam THEN BEAM_STOP
                ELSE IF is_enchantment(b)
                     THEN (IF b.flavour = "BEAM_DIGGING" THEN 0 ELSE BEAM_STOP)
                ELSE IF b.name = "hellfire" THEN 0
                ELSE IF b.is_explosion \/ b.is_big_cloud THEN BEAM_STOP
                ELSE IF b.flavour = "BEAM_ACID" THEN BEAM_STOP
                ELSE IF b.flavour = "BEAM_ELECTRICITY" THEN 0
                ELSE 1
    IN  IF b.is_tracer /\ b.beam_source = NON_MONSTER /\ used = BEAM_STOP
        THEN 1 ELSE used

(* ---------------------------------------------------------------------- *)
(* Small state updates                                                     *)
(* ---------------------------------------------------------------------- *)
mpr(s) == [s EXCEPT !.msgs = @ + 1]

emit_message(s, m) ==
    IF m \in s.b.message_cache THEN s
    ELSE [s EXCEPT !.msgs = @ + 1, !.b.message_cache = @ \cup {m}]

yesno(s) == [s EXCEPT !.prompts = @ + 1]

(* faulty variant: the range spent is cleared instead of filled           *)
finish_beam_wrong(s) == [s EXCEPT !.b.range_used = 0]

finish_beam(s) == [s EXCEPT !.b.range_used = s.b.range]

add_range_used(s, n) == [s EXCEPT !.b.range_used = @ + n]

fake_flavour(s, in) ==
    IF s.b.real_flavour = "BEAM_CHAOS"
    THEN [s EXCEPT !.b.flavour = in.flav] ELSE s

apply_hit_funcs(s) == s

(* damage_funcs: the modelled hook leaves the damage alone, never vetoes  *)
(* and reports one message; the result is the number of messages queued.  *)
apply_dmg_funcs(b) == IF b.dmg_hook THEN 1 ELSE 0

RECURSIVE mpr_n(_, _)
mpr_n(s, n) == IF n <= 0 THEN s ELSE mpr_n(mpr(s), n - 1)

(* ---------------------------------------------------------------------- *)
(* Walls                                                                   *)
(* ---------------------------------------------------------------------- *)
(* faulty variant: the dug cell ends the beam                             *)
digging_wall_effect_final(s) ==
    LET feat == Grd(s, pos(s.b))
    IN  IF feat \in {"DNGN_ROCK_WALL", "DNGN_CLEAR_ROCK_WALL"}
        THEN finish_beam([s EXCEPT !.grd[pos(s.b)] = "DNGN_FLOOR"])
        ELSE IF feat_is_wall(feat) THEN finish_beam(s)
        ELSE s

digging_wall_effect(s) ==
    LET feat == Grd(s, pos(s.b))
    IN  IF feat \in {"DNGN_ROCK_WALL", "DNGN_CLEAR_ROCK_WALL"}
        THEN LET s1 == [s EXCEPT !.grd[pos(s.b)] = "DNGN_FLOOR"]
             IN  IF ~s1.b.msg_generated
                 THEN [mpr(s1) EXCEPT !.b.obvious_effect = TRUE,
                                      !.b.msg_generated = TRUE]
                 ELSE s1
        ELSE IF feat_is_wall(feat) THEN finish_beam(s)
        ELSE s

fire_wall_effect(s) ==
    LET feat == Grd(s, pos(s.b))
        p    == pos(s.b)
    IN  IF feat # "DNGN_WAX_WALL" /\ feat # "DNGN_TREES" THEN finish_beam(s)
        ELSE IF feat = "DNGN_WAX_WALL"
        THEN IF ~is_superhot(s.b)
             THEN finish_beam(IF s.b.flavour # "BEAM_HELLFIRE"
                              THEN emit_message(s, "wax_soften") ELSE s)
             ELSE finish_beam(
                    [emit_message([s EXCEPT !.grd[p] = "DNGN_FLOOR"],
                                  "wax_burn")
                       EXCEPT !.cgrid = @ \cup {p},
                              !.b.obvious_effect = TRUE])
        ELSE IF is_superhot(s.b)
             THEN finish_beam(
                    [emit_message([s EXCEPT !.grd[p] = "DNGN_FLOOR"],
                                  "tree_burn")
                       EXCEPT !.cgrid = @ \cup {p},
                              !.b.obvious_effect = TRUE])
             ELSE finish_beam(s)

nuke_wall_effect(s) ==
    LET feat == Grd(s, pos(s.b))
    IN  IF feat \in {"DNGN_ROCK_WALL", "DNGN_WAX_WALL",
                     "DNGN_CLEAR_ROCK_WALL", "DNGN_GRANITE_STATUE"}
        THEN finish_beam([mpr([s EXCEPT !.grd[pos(s.b)] = "DNGN_FLOOR"])
                            EXCEPT !.b.obvious_effect = TRUE])
        ELSE finish_beam(s)

(* faulty variant: the tracer test is missing                             *)
affect_wall_untraced(s) ==
    LET s1 == IF s.b.flavour = "BEAM_DIGGING" THEN digging_wall_effect(s)
              ELSE IF is_fiery(s.b) THEN fire_wall_effect(s)
              ELSE IF s.b.flavour \in {"BEAM_DISINTEGRATION", "BEAM_NUKE"}
                   THEN nuke_wall_effect(s)
              ELSE s
    IN  IF cell_is_solid(s1, pos(s1.b)) THEN finish_beam(s1) ELSE s1

affect_wall(s) ==
    IF s.b.is_tracer THEN s
    ELSE LET s1 == IF s.b.flavour = "BEAM_DIGGING" THEN digging_wall_effect(s)
                   ELSE IF is_fiery(s.b) THEN fire_wall_effect(s)
                   ELSE IF s.b.flavour \in {"BEAM_DISINTEGRATION", "BEAM_NUKE"}
                        THEN nuke_wall_effect(s)
                   ELSE s
         IN  IF cell_is_solid(s1, pos(s1.b)) THEN finish_beam(s1) ELSE s1

(* ---------------------------------------------------------------------- *)
(* Bouncing                                                                *)
(* ---------------------------------------------------------------------- *)
RECURSIVE regress_while_solid(_, _)
regress_while_solid(s, ray) ==
    LET r == ray_regress(ray)
    IN  IF map_bounds(r.pos) /\ cell_is_solid(s, r.pos)
        THEN regress_while_solid(s, r) ELSE r

DirIndex(d) == CHOOSE i \in 1 .. 8 : Compass[i] = d

Rotate(d, k) == IF d = <<0, 0>> THEN d
                ELSE Compass[((DirIndex(d) - 1 + k) % 8) + 1]

(* faulty variant: the bounce hands back one unit more than it spent      *)
munge_bounced_bolt_generous(s, old_range_used, in) ==
    [s EXCEPT !.b.range = @ + (s.b.range_used - old_range_used) + 1]

(* the loop of _munge_bounced_bolt from its try number tries on: shifts   *)
(* holds the perturbations drawn, try by try, the last one drawn again by *)
(* every later try; a perturbation is a number of eighths of a turn.      *)
(* The result is the ray the loop leaves in temp_ray, the number of       *)
(* perturbations tried, and whether the loop was left by its break        *)
munge_shift(shifts, tries) ==
    shifts[IF tries < Len(shifts) THEN tries + 1 ELSE Len(shifts)]

(* faulty variant: the loop has no limit of tries while draws are left    *)
RECURSIVE munge_tries_unbounded(_, _, _, _)
munge_tries_unbounded(s, new_ray, shifts, tries) ==
    IF tries >= MUNGE_TRIES + Len(shifts)
    THEN [ray |-> new_ray, tries |-> tries, broke |-> FALSE]
    ELSE LET temp_ray == [new_ray EXCEPT
                            !.dir = Rotate(@, munge_shift(shifts, tries))]
             test_ray == ray_advance(temp_ray)
         IN  IF in_bounds(test_ray.pos) /\ ~cell_is_solid(s, test_ray.pos)
             THEN [ray |-> temp_ray, tries |-> tries + 1, broke |-> TRUE]
             ELSE munge_tries_unbounded(s, new_ray, shifts, tries + 1)

RECURSIVE munge_tries(_, _, _, _)
munge_tries(s, new_ray, shifts, tries) ==
    IF tries >= MUNGE_TRIES
    THEN [ray |-> new_ray, tries |-> tries, broke |-> FALSE]
    ELSE LET temp_ray == [new_ray EXCEPT
                            !.dir = Rotate(@, munge_shift(shifts, tries))]
             test_ray == ray_advance(temp_ray)
         IN  IF in_bounds(test_ray.pos) /\ ~cell_is_solid(s, test_ray.pos)
             THEN [ray |-> temp_ray, tries |-> tries + 1, broke |-> TRUE]
             ELSE munge_tries(s, new_ray, shifts, tries + 1)

(* _munge_bounced_bolt: in.shift holds the perturbations its loop draws   *)
munge_bounced_bolt(s, old_range_used, in) ==
    IF s.b.real_flavour # "BEAM_CHAOS" THEN s
    ELSE LET range_spent == s.b.range_used - old_range_used
         IN  [s EXCEPT !.b.ray = munge_tries(s, s.b.ray, in.shift, 0).ray,
                       !.b.range = @ + range_spent]

(* faulty variant: a bounce costs one unit of range                        *)
bounce_cheap(s, in) ==
    LET r1 == regress_while_solid(s, s.b.ray)
        s1 == [s EXCEPT !.b.ray = r1, !.b.bounce_pos = r1.pos]
        s2 == [s1 EXCEPT !.b.ray = ray_bounce(s1, r1),
                         !.b.range_used = @ + 1]
    IN  munge_bounced_bolt(s2, s.b.range_used, in)

bounce(s, in) ==
    LET r1 == regress_while_solid(s, s.b.ray)
        s1 == [s EXCEPT !.b.ray = r1, !.b.bounce_pos = r1.pos]
        s2 == [s1 EXCEPT !.b.ray = ray_bounce(s1, r1),
                         !.b.range_used = @ + BOUNCE_COST]
    IN  munge_bounced_bolt(s2, s.b.range_used, in)

(* faulty variant: the regression runs all the way back to the source     *)
RECURSIVE regress_to_open_far(_, _)
regress_to_open_far(s, ray) ==
    LET r == ray_regress(ray)
    IN  IF r.pos # s.b.source /\ map_bounds(r.pos)
        THEN regress_to_open_far(s, r) ELSE r

RECURSIVE regress_to_open(_, _)
regress_to_open(s, ray) ==
    LET r == ray_regress(ray)
    IN  IF r.pos # s.b.source /\ cell_is_solid(s, r.pos) /\ map_bounds(r.pos)
        THEN regress_to_open(s, r) ELSE r

(* hit_wall returns the new state and whether the beam ended at the wall  *)
hit_wall(s, in) ==
    LET b    == s.b
        feat == Grd(s, pos(b))
        warn == /\ b.is_tracer /\ YOU_KILL(b.thrower) /\ in_bounds(b.target)
                /\ ~b.passed_target
                /\ pos(b) # b.target /\ pos(b) # b.source
                /\ b.foe_info.count = 0
                /\ b.flavour # "BEAM_DIGGING" /\ b.flavour \in RealFlavours
                /\ b.bounces = 0 /\ b.reflections = 0
                /\ ~feat_is_solid(Grd(s, b.target))
    IN  IF warn /\ ~in.yn
        THEN [s |-> finish_beam([yesno(s) EXCEPT !.b.beam_cancelled = TRUE]),
              ended |-> FALSE]
        ELSE LET sp == IF warn THEN yesno(s) ELSE s
             IN  IF affects_wall(sp.b, feat)
                 THEN [s |-> affect_wall(sp), ended |-> FALSE]
                 ELSE IF is_bouncy(sp.b, feat) /\ ~sp.b.in_explosion_phase
                 THEN [s |-> bounce(sp, in), ended |-> FALSE]
                 ELSE LET regress ==
                              /\ pos(sp.b) # sp.b.source
                              /\ \/ (sp.b.is_explosion
                                     /\ ~sp.b.in_explosion_phase)
                                 \/ sp.b.drop_item
                          r1 == regress_to_open(sp, sp.b.ray)
                          s1 == IF regress
                                THEN [sp EXCEPT
                                        !.b.ray = r1,
                                        !.b.target =
                                           IF sp.b.is_explosion
                                              /\ ~sp.b.is_tracer
                                           THEN r1.pos ELSE @]
                                ELSE sp
                      IN  [s |-> finish_beam(s1), ended |-> TRUE]

(* faulty variant: an automatic hit is rolled for like any other           *)
test_beam_hit_rolled(attack, defence, is_beam, deflect, repel, r) ==
    LET a1 == IF is_beam /\ deflect THEN random2(attack * 2, r.r0) \div 3
              ELSE IF is_beam /\ repel
                   THEN (IF attack >= 2
                         THEN random_range((attack + 1) \div 2 + 1, attack,
                                           r.r0)
                         ELSE attack)
              ELSE IF deflect THEN random2(attack \div 2, r.r0)
              ELSE IF repel THEN random2(attack, r.r0)
              ELSE attack
    IN  random2(a1, r.r1) >= random2(defence, r.r2)

(* ---------------------------------------------------------------------- *)
(* To-hit                                                                  *)
(* ---------------------------------------------------------------------- *)
test_beam_hit(attack, defence, is_beam, deflect, repel, r) ==
    LET a1 == IF is_beam /\ deflect THEN random2(attack * 2, r.r0) \div 3
              ELSE IF is_beam /\ repel
                   THEN (IF attack >= 2
                         THEN random_range((attack + 1) \div 2 + 1, attack,
                                           r.r0)
                         ELSE attack)
              ELSE IF deflect THEN random2(attack \div 2, r.r0)
              ELSE IF repel THEN random2(attack, r.r0)
              ELSE attack
    IN  IF a1 = AUTOMATIC_HIT THEN TRUE
        ELSE random2(a1, r.r1) >= random2(defence, r.r2)

(* ---------------------------------------------------------------------- *)
(* Reflection                                                              *)
(* ---------------------------------------------------------------------- *)
is_reflectable(b, shield) ==
    IF b.range_used >= b.range THEN FALSE ELSE shield = "reflect"

(* faulty variant: the cell of the reflection is not made the new source  *)
reflect_no_source(s) ==
    LET b  == s.b
        p  == pos(b)
        t  == IF b.bounces > 0 /\ in_bounds(b.bounce_pos)
              THEN b.bounce_pos ELSE b.source
        m  == monster_at(s, p)
    IN  [s EXCEPT !.b.reflections = @ + 1,
                  !.b.target = t,
                  !.b.bounce_pos = <<0, 0>>,
                  !.b.reflector = IF p = s.you.pos THEN NON_MONSTER
                                  ELSE IF m # NON_MONSTER THEN m ELSE -1,
                  !.b.flavour = b.real_flavour,
                  !.b.ray = find_ray(p, t)]

reflect(s) ==
    LET b  == s.b
        p  == pos(b)
        t  == IF b.bounces > 0 /\ in_bounds(b.bounce_pos)
              THEN b.bounce_pos ELSE b.source
        m  == monster_at(s, p)
    IN  [s EXCEPT !.b.reflections = @ + 1,
                  !.b.target = t,
                  !.b.source = p,
                  !.b.bounce_pos = <<0, 0>>,
                  !.b.reflector = IF p = s.you.pos THEN NON_MONSTER
                                  ELSE IF m # NON_MONSTER THEN m ELSE -1,
                  !.b.flavour = b.real_flavour,
                  !.b.ray = find_ray(p, t)]

(* ---------------------------------------------------------------------- *)
(* Resistances                                                             *)
(* ---------------------------------------------------------------------- *)
(* the percentage of the damage a resistance acts on: of ice, and of the  *)
(* other flavours whose resistance is only ever narrated as partial, half  *)
(* is impact that cannot be resisted                                       *)
resistible_fraction(flavour) ==
    IF flavour \in {"BEAM_ICE", "BEAM_LAVA", "BEAM_POISON_ARROW"} THEN 50
    ELSE 100

resist_adjust_damage(flavour, res, rawdamage, ranged) ==
    LET resistible == (rawdamage * resistible_fraction(flavour)) \div 100
        irresistible == rawdamage - resistible
        Left(part) ==
            IF res >= 3 THEN 0
            ELSE IF res > 0 THEN part \div (1 + res * res)
            ELSE IF res < 0
            THEN (part * (IF ranged THEN 15 ELSE 20)) \div 10
            ELSE part
    IN  Max(Left(resistible) + irresistible, 0)

(* check_your_resists (defined outside beam.cc) by its contract: the       *)
(* elemental flavours are scaled by the player's resistance level the way  *)
(* resist_adjust_damage scales them, the others pass through unchanged     *)
check_your_resists(y, hurted, flavour) ==
    IF flavour \in {"BEAM_FIRE", "BEAM_COLD", "BEAM_ELECTRICITY",
                    "BEAM_LAVA"}
    THEN resist_adjust_damage(flavour, y.res, hurted, TRUE)
    ELSE hurted

(* player_light_armour(): the player wears no heavy body armour           *)
player_light_armour(y) == y.light_armour

(* faulty variant: hellfire is zeroed only above resistance level 3        *)
mons_adjust_flavoured_hellfire(m, b, original, doFlavouredEffects, roll) ==
    LET f == b.flavour
        Ret(hurted, nmsg, ench, obvious) ==
            [hurted |-> hurted,
             nmsg |-> IF doFlavouredEffects THEN nmsg ELSE 0,
             ench |-> IF doFlavouredEffects THEN ench ELSE {},
             obvious |-> doFlavouredEffects /\ obvious]
        Adj(ranged) ==
            resist_adjust_damage(f, mons_res(m, f), original, ranged)
        Told(hurted) ==
            Ret(hurted, IF hurted = 0 \/ original # hurted THEN 1 ELSE 0,
                {}, FALSE)
        Unharmed(hurted) ==
            Ret(hurted, IF hurted = 0 THEN 1 ELSE 0, {}, FALSE)
        Poison(hurted, res) ==
            IF hurted = 0 /\ res > 0 THEN Ret(hurted, 1, {}, FALSE)
            ELSE IF res <= 0 /\ doFlavouredEffects /\ roll # 0
            THEN Ret(hurted, 0, {"poison"}, FALSE)
            ELSE Ret(hurted, 0, {}, FALSE)
        PoisonArrow(hurted) ==
            IF hurted < original
            THEN Ret(hurted, 1,
                     IF m.type # "MONS_FIRE_ELEMENTAL" THEN {"poison"}
                     ELSE {}, FALSE)
            ELSE Ret(hurted, 0, {"poison"}, FALSE)
        Partial(hurted) ==
            Ret(hurted, IF hurted # original THEN 1 ELSE 0, {}, FALSE)
        Holy(rhe) ==
            Ret(IF rhe > 0 THEN 0
                ELSE IF rhe = 0 THEN original \div 2
                ELSE IF rhe < -1 THEN (original * 3) \div 2
                ELSE original, 1, {}, FALSE)
        Hellfire(resist) ==
            IF resist > 3 THEN Ret(0, 1, {}, FALSE)
            ELSE IF resist > 0 THEN Ret(original \div 2, 1, {}, FALSE)
            ELSE IF resist < 0 THEN Ret((original * 12) \div 10, 1, {}, FALSE)
            ELSE Ret(original, 0, {}, FALSE)
    IN  CASE f \in {"BEAM_FIRE", "BEAM_STEAM", "BEAM_COLD"} ->
               Told(Adj(TRUE))
          [] f \in {"BEAM_ELECTRICITY", "BEAM_ACID"} -> Unharmed(Adj(TRUE))
          [] f = "BEAM_POISON" -> Poison(Adj(TRUE), mons_res(m, f))
          [] f = "BEAM_POISON_ARROW" -> PoisonArrow(Adj(FALSE))
          [] f = "BEAM_NEG" ->
               IF mons_res(m, f) = 3 THEN Ret(0, 1, {}, FALSE)
               ELSE IF ~doFlavouredEffects
               THEN [hurted |-> original, nmsg |-> 0, ench |-> {},
                     obvious |-> FALSE]
               ELSE Ret(original, 0, {"drained"}, TRUE)
          [] f = "BEAM_MIASMA" ->
               IF mons_res(m, f) # 0 THEN Ret(0, 1, {}, FALSE)
               ELSE IF ~doFlavouredEffects
               THEN [hurted |-> original, nmsg |-> 0, ench |-> {},
                     obvious |-> FALSE]
               ELSE Ret(original, 0, {"miasma"}, FALSE)
          [] f = "BEAM_HOLY" -> Holy(mons_res(m, f))
          [] f \in {"BEAM_ICE", "BEAM_LAVA"} -> Partial(Adj(TRUE))
          [] f = "BEAM_HELLFIRE" -> Hellfire(mons_res_fire(m))
          [] f = "BEAM_SPORE" ->
               Ret(IF m.type = "MONS_BALLISTOMYCETE" THEN 0 ELSE original,
                   0, {}, FALSE)
          [] OTHER -> Ret(original, 0, {}, FALSE)

(* faulty variant: the early return of the silent call returns no damage   *)
mons_adjust_flavoured_early(m, b, original, doFlavouredEffects, roll) ==
    LET f == b.flavour
        Ret(hurted, nmsg, ench, obvious) ==
            [hurted |-> hurted,
             nmsg |-> IF doFlavouredEffects THEN nmsg ELSE 0,
             ench |-> IF doFlavouredEffects THEN ench ELSE {},
             obvious |-> doFlavouredEffects /\ obvious]
        Adj(ranged) ==
            resist_adjust_damage(f, mons_res(m, f), original, ranged)
        Told(hurted) ==
            Ret(hurted, IF hurted = 0 \/ original # hurted THEN 1 ELSE 0,
                {}, FALSE)
        Unharmed(hurted) ==
            Ret(hurted, IF hurted = 0 THEN 1 ELSE 0, {}, FALSE)
        Poison(hurted, res) ==
            IF hurted = 0 /\ res > 0 THEN Ret(hurted, 1, {}, FALSE)
            ELSE IF res <= 0 /\ doFlavouredEffects /\ roll # 0
            THEN Ret(hurted, 0, {"poison"}, FALSE)
            ELSE Ret(hurted, 0, {}, FALSE)
        PoisonArrow(hurted) ==
            IF hurted < original
            THEN Ret(hurted, 1,
                     IF m.type # "MONS_FIRE_ELEMENTAL" THEN {"poison"}
                     ELSE {}, FALSE)
            ELSE Ret(hurted, 0, {"poison"}, FALSE)
        Partial(hurted) ==
            Ret(hurted, IF hurted # original THEN 1 ELSE 0, {}, FALSE)
        Holy(rhe) ==
            Ret(IF rhe > 0 THEN 0
                ELSE IF rhe = 0 THEN original \div 2
                ELSE IF rhe < -1 THEN (original * 3) \div 2
                ELSE original, 1, {}, FALSE)
        Hellfire(resist) ==
            IF resist > 2 THEN Ret(0, 1, {}, FALSE)
            ELSE IF resist > 0 THEN Ret(original \div 2, 1, {}, FALSE)
            ELSE IF resist < 0 THEN Ret((original * 12) \div 10, 1, {}, FALSE)
            ELSE Ret(original, 0, {}, FALSE)
    IN  CASE f \in {"BEAM_FIRE", "BEAM_STEAM", "BEAM_COLD"} ->
               Told(Adj(TRUE))
          [] f \in {"BEAM_ELECTRICITY", "BEAM_ACID"} -> Unharmed(Adj(TRUE))
          [] f = "BEAM_POISON" -> Poison(Adj(TRUE), mons_res(m, f))
          [] f = "BEAM_POISON_ARROW" -> PoisonArrow(Adj(FALSE))
          [] f = "BEAM_NEG" ->
               IF mons_res(m, f) = 3 THEN Ret(0, 1, {}, FALSE)
               ELSE IF ~doFlavouredEffects
               THEN [hurted |-> 0, nmsg |-> 0, ench |-> {},
                     obvious |-> FALSE]
               ELSE Ret(original, 0, {"drained"}, TRUE)
          [] f = "BEAM_MIASMA" ->
               IF mons_res(m, f) # 0 THEN Ret(0, 1, {}, FALSE)
               ELSE IF ~doFlavouredEffects
               THEN [hurted |-> 0, nmsg |-> 0, ench |-> {},
                     obvious |-> FALSE]
               ELSE Ret(original, 0, {"miasma"}, FALSE)
          [] f = "BEAM_HOLY" -> Holy(mons_res(m, f))
          [] f \in {"BEAM_ICE", "BEAM_LAVA"} -> Partial(Adj(TRUE))
          [] f = "BEAM_HELLFIRE" -> Hellfire(mons_res_fire(m))
          [] f = "BEAM_SPORE" ->
               Ret(IF m.type = "MONS_BALLISTOMYCETE" THEN 0 ELSE original,
                   0, {}, FALSE)
          [] OTHER -> Ret(original, 0, {}, FALSE)

(* mons_adjust_flavoured: the damage after resistance, and what the call   *)
(* does besides when doFlavouredEffects: the number of messages, the       *)
(* enchantments put on the monster, whether pbolt.obvious_effect is set.   *)
(* roll is the one_chance_in(3) draw of the poison arm (0: the one chance) *)
mons_adjust_flavoured(m, b, original, doFlavouredEffects, roll) ==
    LET f == b.flavour
        Ret(hurted, nmsg, ench, obvious) ==
            [hurted |-> hurted,
             nmsg |-> IF doFlavouredEffects THEN nmsg ELSE 0,
             ench |-> IF doFlavouredEffects THEN ench ELSE {},
             obvious |-> doFlavouredEffects /\ obvious]
        Adj(ranged) ==
            resist_adjust_damage(f, mons_res(m, f), original, ranged)
        Told(hurted) ==
            Ret(hurted, IF hurted = 0 \/ original # hurted THEN 1 ELSE 0,
                {}, FALSE)
        Unharmed(hurted) ==
            Ret(hurted, IF hurted = 0 THEN 1 ELSE 0, {}, FALSE)
        Poison(hurted, res) ==
            IF hurted = 0 /\ res > 0 THEN Ret(hurted, 1, {}, FALSE)
            ELSE IF res <= 0 /\ doFlavouredEffects /\ roll # 0
            THEN Ret(hurted, 0, {"poison"}, FALSE)
            ELSE Ret(hurted, 0, {}, FALSE)
        PoisonArrow(hurted) ==
            IF hurted < original
            THEN Ret(hurted, 1,
                     IF m.type # "MONS_FIRE_ELEMENTAL" THEN {"poison"}
                     ELSE {}, FALSE)
            ELSE Ret(hurted, 0, {"poison"}, FALSE)
        Partial(hurted) ==
            Ret(hurted, IF hurted # original THEN 1 ELSE 0, {}, FALSE)
        Holy(rhe) ==
            Ret(IF rhe > 0 THEN 0
                ELSE IF rhe = 0 THEN original \div 2
                ELSE IF rhe < -1 THEN (original * 3) \div 2
                ELSE original, 1, {}, FALSE)
        Hellfire(resist) ==
            IF resist > 2 THEN Ret(0, 1, {}, FALSE)
            ELSE IF resist > 0 THEN Ret(original \div 2, 1, {}, FALSE)
            ELSE IF resist < 0 THEN Ret((original * 12) \div 10, 1, {}, FALSE)
            ELSE Ret(original, 0, {}, FALSE)
    IN  CASE f \in {"BEAM_FIRE", "BEAM_STEAM", "BEAM_COLD"} ->
               Told(Adj(TRUE))
          [] f \in {"BEAM_ELECTRICITY", "BEAM_ACID"} -> Unharmed(Adj(TRUE))
          [] f = "BEAM_POISON" -> Poison(Adj(TRUE), mons_res(m, f))
          [] f = "BEAM_POISON_ARROW" -> PoisonArrow(Adj(FALSE))
          [] f = "BEAM_NEG" ->
               IF mons_res(m, f) = 3 THEN Ret(0, 1, {}, FALSE)
               ELSE IF ~doFlavouredEffects
               THEN [hurted |-> original, nmsg |-> 0, ench |-> {},
                     obvious |-> FALSE]
               ELSE Ret(original, 0, {"drained"}, TRUE)
          [] f = "BEAM_MIASMA" ->
               IF mons_res(m, f) # 0 THEN Ret(0, 1, {}, FALSE)
               ELSE IF ~doFlavouredEffects
               THEN [hurted |-> original, nmsg |-> 0, ench |-> {},
                     obvious |-> FALSE]
               ELSE Ret(original, 0, {"miasma"}, FALSE)
          [] f = "BEAM_HOLY" -> Holy(mons_res(m, f))
          [] f \in {"BEAM_ICE", "BEAM_LAVA"} -> Partial(Adj(TRUE))
          [] f = "BEAM_HELLFIRE" -> Hellfire(mons_res_fire(m))
          [] f = "BEAM_SPORE" ->
               Ret(IF m.type = "MONS_BALLISTOMYCETE" THEN 0 ELSE original,
                   0, {}, FALSE)
          [] OTHER -> Ret(original, 0, {}, FALSE)


nice_to(b, m) == b.flavour \in {"BEAM_HASTE", "BEAM_HEALING",
                                "BEAM_INVISIBILITY"}

nasty_to(b, m) ==
    IF ~is_enchantment(b) THEN TRUE
    ELSE IF b.flavour = "BEAM_DIGGING" THEN FALSE
    ELSE IF nice_to(b, m) THEN FALSE
    ELSE TRUE

is_harmless(b, m) ==
    IF is_enchantment(b) THEN ~nasty_to(b, m)
    ELSE IF b.flavour \in {"BEAM_VISUAL", "BEAM_DIGGING"} THEN TRUE
    ELSE IF b.flavour = "BEAM_FIRE" THEN mons_res_fire(m) >= 3
    ELSE IF b.flavour = "BEAM_ELECTRICITY" THEN mons_res_elec(m) >= 3
    ELSE FALSE

harmless_to_player(b) ==
    b.flavour \in {"BEAM_VISUAL", "BEAM_DIGGING", "BEAM_HASTE",
                   "BEAM_HEALING", "BEAM_INVISIBILITY"}

has_saving_throw(b) ==
    IF b.aimed_at_feet THEN FALSE
    ELSE b.flavour \notin {"BEAM_HASTE", "BEAM_MIGHT", "BEAM_BERSERK",
                           "BEAM_HEALING", "BEAM_INVISIBILITY"}

update_hurt_or_helped(s, m) ==
    IF ~mons_atts_aligned(s.b.attitude, m.att)
    THEN IF nasty_to(s.b, m) THEN [s EXCEPT !.b.foe_info.hurt = @ + 1]
         ELSE IF nice_to(s.b, m) THEN [s EXCEPT !.b.foe_info.helped = @ + 1]
         ELSE s
    ELSE IF nasty_to(s.b, m) THEN [s EXCEPT !.b.friend_info.hurt = @ + 1]
         ELSE IF nice_to(s.b, m) THEN [s EXCEPT !.b.friend_info.helped = @ + 1]
         ELSE s

(* ---------------------------------------------------------------------- *)
(* The player as victim                                                    *)
(* ---------------------------------------------------------------------- *)
tracer_affect_player(s, in) ==
    LET b  == s.b
        s1 == IF YOU_KILL(b.thrower)
              THEN IF ~b.aimed_at_feet /\ ~b.dont_stop_player
                      /\ ~harmless_to_player(b)
                   THEN IF in.yn
                        THEN [yesno(s) EXCEPT
                                !.b.friend_info.count = @ + 1,
                                !.b.friend_info.power = @ + s.you.xl,
                                !.b.dont_stop_player = TRUE]
                        ELSE finish_beam([yesno(s) EXCEPT
                                            !.b.beam_cancelled = TRUE])
                   ELSE s
              ELSE IF mons_att_wont_attack(b.attitude)
                   THEN [s EXCEPT !.b.friend_info.count = @ + 1,
                                  !.b.friend_info.power = @ + s.you.xl]
                   ELSE [s EXCEPT !.b.foe_info.count = @ + 1,
                                  !.b.foe_info.power = @ + s.you.xl]
        s2 == mpr_n(s1, apply_dmg_funcs(s1.b))
    IN  add_range_used(apply_hit_funcs(s2), range_used_on_hit(s2.b))

(* faulty variant: the to-hit roll is made before the shield is tried     *)
misses_player_roll_first(s, in) ==
    LET b == s.b
    IN  IF b.is_explosion \/ b.aimed_at_feet \/ b.auto_hit
           \/ is_enchantment(b)
        THEN [s |-> s, miss |-> FALSE]
        ELSE IF ~b.is_beam /\ ~is_blockable(b)
        THEN [s |-> s, miss |-> FALSE]
        ELSE IF ~test_beam_hit(b.hit, random2(s.you.ev, in.ev), b.is_beam,
                               FALSE, FALSE, in)
        THEN [s |-> mpr(s), miss |-> TRUE]
        ELSE IF is_blockable(b) /\ s.you.shield # "none" /\ ~b.aimed_at_feet
                /\ random2((b.hit * 130) \div 100, in.blk) < 1
        THEN IF is_reflectable(b, s.you.shield)
             THEN [s |-> reflect(mpr(s)), miss |-> TRUE]
             ELSE [s |-> finish_beam(mpr(s)), miss |-> TRUE]
        ELSE [s |-> mpr(s), miss |-> FALSE]

(* misses_player returns the new state and whether the bolt missed        *)
misses_player(s, in) ==
    LET b == s.b
    IN  IF b.is_explosion \/ b.aimed_at_feet \/ b.auto_hit
           \/ is_enchantment(b)
        THEN [s |-> s, miss |-> FALSE]
        ELSE IF ~b.is_beam /\ ~is_blockable(b)
        THEN [s |-> s, miss |-> FALSE]
        ELSE IF is_blockable(b) /\ s.you.shield # "none" /\ ~b.aimed_at_feet
                /\ random2((b.hit * 130) \div 100, in.blk) < 1
        THEN IF is_reflectable(b, s.you.shield)
             THEN [s |-> reflect(mpr(s)), miss |-> TRUE]
             ELSE [s |-> finish_beam(mpr(s)), miss |-> TRUE]
        ELSE IF ~test_beam_hit(b.hit, random2(s.you.ev, in.ev), b.is_beam,
                               FALSE, FALSE, in)
             THEN [s |-> mpr(s), miss |-> TRUE]
             ELSE [s |-> mpr(s), miss |-> FALSE]

affect_player_enchantment(s, in) ==
    LET b == s.b
    IN  IF has_saving_throw(b) /\ in.res = 1
        THEN add_range_used([mpr(s) EXCEPT !.struck = Append(@, s.you.pos)],
                            range_used_on_hit(b))
        ELSE LET t  == [s EXCEPT !.struck = Append(@, s.you.pos)]
                 s1 == IF b.flavour = "BEAM_SLOW"
                       THEN [mpr(t) EXCEPT !.you.ench = @ \cup {"slow"},
                                           !.b.obvious_effect = TRUE]
                       ELSE IF b.flavour = "BEAM_HASTE"
                       THEN [mpr(t) EXCEPT !.you.ench = @ \cup {"haste"},
                                           !.b.obvious_effect = TRUE]
                       ELSE mpr(t)
                 nasty == b.flavour # "BEAM_HASTE"
                 nice  == b.flavour = "BEAM_HASTE"
                 s2 == IF nasty
                       THEN IF mons_att_wont_attack(b.attitude)
                            THEN [s1 EXCEPT !.b.friend_info.hurt = @ + 1]
                            ELSE [s1 EXCEPT !.b.foe_info.hurt = @ + 1]
                       ELSE s1
                 s3 == IF nice
                       THEN IF mons_att_wont_attack(b.attitude)
                            THEN [s2 EXCEPT !.b.friend_info.helped = @ + 1]
                            ELSE [s2 EXCEPT !.b.foe_info.helped = @ + 1]
                       ELSE s2
             IN  add_range_used(apply_hit_funcs(s3), range_used_on_hit(s3.b))

affect_player(s, in) ==
    LET Hurt(s1, hurted, nmsg) ==
            LET s2 == apply_hit_funcs(s1)
                s3 == IF hurted > 0
                      THEN IF mons_att_wont_attack(s1.b.attitude)
                           THEN [s2 EXCEPT !.b.friend_info.hurt = @ + 1]
                           ELSE [s2 EXCEPT !.b.foe_info.hurt = @ + 1]
                      ELSE s2
                s4 == IF hurted > 0 THEN mpr_n(s3, nmsg) ELSE s3
            IN  add_range_used([s4 EXCEPT !.you.hp = @ - hurted,
                                          !.struck = Append(@, s1.you.pos)],
                               range_used_on_hit(s1.b))
        Damage(s1) ==
            LET b    == s1.b
                roll == random_range(b.damage.num,
                                     b.damage.num * b.damage.size, in.dmg)
                adr0 == random2(1 + s1.you.ac, in.acr)
                adr  == IF b.flavour = "BEAM_ELECTRICITY"
                        THEN adr0 \div 2 ELSE adr0
                frag == IF b.flavour = "BEAM_FRAG"
                           /\ ~player_light_armour(s1.you)
                        THEN random2(1 + s1.you.ac, in.acr2)
                             + random2(1 + s1.you.ac, in.acr3)
                        ELSE 0
            IN  Hurt(s1, check_your_resists(s1.you,
                                            Max(0, roll - adr - frag),
                                            b.flavour),
                     apply_dmg_funcs(b))
        Missed(mp) == IF mp.miss THEN mp.s ELSE Damage(mp.s)
    IN  IF s.b.is_explosion /\ ~s.b.in_explosion_phase THEN finish_beam(s)
        ELSE IF s.b.flavour = "BEAM_DIGGING" THEN s
        ELSE IF s.b.is_tracer THEN tracer_affect_player(s, in)
        ELSE IF is_enchantment(s.b) THEN affect_player_enchantment(s, in)
        ELSE Missed(misses_player([s EXCEPT !.b.msg_generated = TRUE], in))

(* ---------------------------------------------------------------------- *)
(* Monsters as victims                                                     *)
(* ---------------------------------------------------------------------- *)
(* faulty variant: the thrower is not looked at                           *)
handle_stop_attack_prompt_any(s, i, in) ==
    LET b == s.b
    IN  IF ~is_harmless(b, s.mons[i])
        THEN IF (b.friend_info.count = 1 /\ ~b.friend_info.dont_stop)
                \/ (b.foe_info.count = 1 /\ ~b.foe_info.dont_stop)
             THEN IF ~in.yn
                  THEN finish_beam([yesno(s) EXCEPT !.b.beam_cancelled = TRUE])
                  ELSE IF b.friend_info.count = 1
                       THEN [yesno(s) EXCEPT !.b.friend_info.dont_stop = TRUE]
                       ELSE IF b.foe_info.count = 1
                       THEN [yesno(s) EXCEPT !.b.foe_info.dont_stop = TRUE]
                       ELSE yesno(s)
             ELSE s
        ELSE s

handle_stop_attack_prompt(s, i, in) ==
    LET b == s.b
    IN  IF b.thrower \in {"KILL_YOU_MISSILE", "KILL_YOU"}
           /\ ~is_harmless(b, s.mons[i])
        THEN IF (b.friend_info.count = 1 /\ ~b.friend_info.dont_stop)
                \/ (b.foe_info.count = 1 /\ ~b.foe_info.dont_stop)
             THEN IF ~in.yn
                  THEN finish_beam([yesno(s) EXCEPT !.b.beam_cancelled = TRUE])
                  ELSE IF b.friend_info.count = 1
                       THEN [yesno(s) EXCEPT !.b.friend_info.dont_stop = TRUE]
                       ELSE IF b.foe_info.count = 1
                       THEN [yesno(s) EXCEPT !.b.foe_info.dont_stop = TRUE]
                       ELSE yesno(s)
             ELSE s
        ELSE s

(* faulty variant: the damage after armour is not clamped                 *)
determine_damage_unclamped(s, i, in) ==
    LET b == s.b
        m == s.mons[i]
        preac0 == IF b.is_tracer
                  THEN (b.damage.num * (b.damage.size + 1)) \div 2
                  ELSE random_range(b.damage.num,
                                    b.damage.num * b.damage.size, in.dmg)
        nmsg == apply_dmg_funcs(b)
    IN  IF m.submerged /\ ~b.aimed_at_spot
        THEN [ok |-> FALSE, s |-> s, preac |-> 0, postac |-> 0, final |-> 0,
              nmsg |-> nmsg]
        ELSE IF m.submerged /\ b.flavour = "BEAM_ELECTRICITY"
        THEN [ok |-> FALSE,
              s |-> finish_beam(IF ~b.is_tracer THEN mpr(s) ELSE s),
              preac |-> 0, postac |-> 0, final |-> 0, nmsg |-> nmsg]
        ELSE LET preac == IF m.submerged THEN (preac0 * 2) \div 3 ELSE preac0
                 ac1 == maybe_random2(1 + mons_ac(m), ~b.is_tracer, in.acr)
                 ac2 == maybe_random2(1 + mons_ac(m), ~b.is_tracer, in.acr2)
                 ac3 == maybe_random2(1 + mons_ac(m), ~b.is_tracer, in.acr3)
                 postac == IF b.flavour = "BEAM_FRAG"
                           THEN preac - ac1 - ac2 - ac3 ELSE preac - ac1
             IN  [ok |-> TRUE, s |-> s, preac |-> preac, postac |-> postac,
                  final |-> mons_adjust_flavoured(m, b, postac, FALSE,
                                                  0).hurted,
                  nmsg |-> nmsg]

(* faulty variant: a submerged monster's third is taken off after the     *)
(* armour instead of before it                                            *)
determine_damage_late_third(s, i, in) ==
    LET b == s.b
        m == s.mons[i]
        preac0 == IF b.is_tracer
                  THEN (b.damage.num * (b.damage.size + 1)) \div 2
                  ELSE random_range(b.damage.num,
                                    b.damage.num * b.damage.size, in.dmg)
        nmsg == apply_dmg_funcs(b)
    IN  IF m.submerged /\ ~b.aimed_at_spot
        THEN [ok |-> FALSE, s |-> s, preac |-> 0, postac |-> 0, final |-> 0,
              nmsg |-> nmsg]
        ELSE IF m.submerged /\ b.flavour = "BEAM_ELECTRICITY"
        THEN [ok |-> FALSE,
              s |-> finish_beam(IF ~b.is_tracer THEN mpr(s) ELSE s),
              preac |-> 0, postac |-> 0, final |-> 0, nmsg |-> nmsg]
        ELSE LET preac == IF m.submerged THEN (preac0 * 2) \div 3 ELSE preac0
                 ac1 == maybe_random2(1 + mons_ac(m), ~b.is_tracer, in.acr)
                 ac2 == maybe_random2(1 + mons_ac(m), ~b.is_tracer, in.acr2)
                 ac3 == maybe_random2(1 + mons_ac(m), ~b.is_tracer, in.acr3)
                 postac0 == IF b.flavour = "BEAM_FRAG"
                            THEN preac0 - ac1 - ac2 - ac3 ELSE preac0 - ac1
                 postac == Max(postac0, 0)
             IN  [ok |-> TRUE, s |-> s, preac |-> preac, postac |-> postac,
                  final |-> mons_adjust_flavoured(m, b, postac, FALSE,
                                                  0).hurted,
                  nmsg |-> nmsg]

(* determine_damage: ok is false when the monster is to be skipped        *)
determine_damage(s, i, in) ==
    LET b == s.b
        m == s.mons[i]
        preac0 == IF b.is_tracer
                  THEN (b.damage.num * (b.damage.size + 1)) \div 2
                  ELSE random_range(b.damage.num,
                                    b.damage.num * b.damage.size, in.dmg)
        nmsg == apply_dmg_funcs(b)
    IN  IF m.submerged /\ ~b.aimed_at_spot
        THEN [ok |-> FALSE, s |-> s, preac |-> 0, postac |-> 0, final |-> 0,
              nmsg |-> nmsg]
        ELSE IF m.submerged /\ b.flavour = "BEAM_ELECTRICITY"
        THEN [ok |-> FALSE,
              s |-> finish_beam(IF ~b.is_tracer THEN mpr(s) ELSE s),
              preac |-> 0, postac |-> 0, final |-> 0, nmsg |-> nmsg]
        ELSE LET preac == IF m.submerged THEN (preac0 * 2) \div 3 ELSE preac0
                 ac1 == maybe_random2(1 + mons_ac(m), ~b.is_tracer, in.acr)
                 ac2 == maybe_random2(1 + mons_ac(m), ~b.is_tracer, in.acr2)
                 ac3 == maybe_random2(1 + mons_ac(m), ~b.is_tracer, in.acr3)
                 postac0 == IF b.flavour = "BEAM_FRAG"
                            THEN preac - ac1 - ac2 - ac3 ELSE preac - ac1
                 postac == Max(postac0, 0)
             IN  [ok |-> TRUE, s |-> s, preac |-> preac, postac |-> postac,
                  final |-> mons_adjust_flavoured(m, b, postac, FALSE,
                                                  0).hurted,
                  nmsg |-> nmsg]

tracer_enchantment_affect_monster(s, i, in) ==
    LET Used(s2) ==
            IF ~s2.b.beam_cancelled
            THEN add_range_used(apply_hit_funcs(s2), range_used_on_hit(s2.b))
            ELSE s2
        m == s.mons[i]
    IN  Used(handle_stop_attack_prompt(
               IF ~mons_atts_aligned(s.b.attitude, m.att)
               THEN [s EXCEPT !.b.foe_info.count = @ + 1,
                              !.b.foe_info.power = @ + mons_power(m)]
               ELSE [s EXCEPT !.b.friend_info.count = @ + 1,
                              !.b.friend_info.power = @ + mons_power(m)],
               i, in))

tracer_nonenchantment_affect_monster(s, i, in) ==
    LET Used(s2) ==
            IF s2.b.beam_cancelled THEN s2
            ELSE add_range_used(apply_hit_funcs(s2), range_used_on_hit(s2.b))
        Count(dd, m) ==
            IF ~dd.ok THEN dd.s
            ELSE Used(handle_stop_attack_prompt(
                   IF dd.final > 0
                   THEN IF ~mons_atts_aligned(dd.s.b.attitude, m.att)
                        THEN [dd.s EXCEPT
                                !.b.foe_info.power = @ +
                                   (2 * dd.final * mons_power(m))
                                      \div dd.preac,
                                !.b.foe_info.count = @ + 1]
                        ELSE [dd.s EXCEPT
                                !.b.friend_info.power = @ +
                                   (2 * dd.final * mons_power(m))
                                      \div dd.preac,
                                !.b.friend_info.count = @ + 1]
                   ELSE dd.s, i, in))
    IN  Count(determine_damage(s, i, in), s.mons[i])

(* faulty variant: a travelling explosion's tracer counts the monster     *)
tracer_affect_monster_eager(s, i, in) ==
    IF is_enchantment(s.b) THEN tracer_enchantment_affect_monster(s, i, in)
    ELSE tracer_nonenchantment_affect_monster(s, i, in)

tracer_affect_monster(s, i, in) ==
    IF s.b.is_explosion /\ ~s.b.in_explosion_phase THEN finish_beam(s)
    ELSE IF is_enchantment(s.b) THEN tracer_enchantment_affect_monster(s, i, in)
    ELSE tracer_nonenchantment_affect_monster(s, i, in)

try_enchant_monster(s, i, in) ==
    IF has_saving_throw(s.b) /\ in.res = 1
    THEN [s |-> s, result |-> "MON_RESIST"]
    ELSE IF s.b.flavour = "BEAM_SLOW"
    THEN [s |-> [mpr(s) EXCEPT !.mons[i].ench = @ \cup {"slow"},
                               !.b.obvious_effect = TRUE],
          result |-> "MON_AFFECTED"]
    ELSE IF s.b.flavour = "BEAM_HASTE"
    THEN [s |-> [mpr(s) EXCEPT !.mons[i].ench = @ \cup {"haste"},
                               !.b.obvious_effect = TRUE],
          result |-> "MON_AFFECTED"]
    ELSE [s |-> s, result |-> "MON_UNAFFECTED"]

enchantment_affect_monster(s, i, in) ==
    LET Used(s1) ==
            add_range_used(apply_hit_funcs(s1), range_used_on_hit(s1.b))
        Result(te) ==
            Used(IF te.result \in {"MON_RESIST", "MON_UNAFFECTED"}
                 THEN [mpr(te.s) EXCEPT
                         !.b.msg_generated = TRUE,
                         !.struck = Append(@, te.s.mons[i].pos)]
                 ELSE [update_hurt_or_helped(te.s, te.s.mons[i]) EXCEPT
                         !.struck = Append(@, te.s.mons[i].pos)])
    IN  IF s.mons[i].submerged THEN s
        ELSE Result(try_enchant_monster(s, i, in))

(* attempt_block returns the new state and whether the block succeeded    *)
attempt_block(s, i, in) ==
    LET m == s.mons[i]
        shield_block == mons_shield_bonus(m)
        ht == random2((s.b.hit * 130) \div 100, in.blk)
    IN  IF shield_block > 0 /\ ht < shield_block
        THEN IF is_reflectable(s.b, m.shield)
             THEN [s |-> reflect(mpr(s)), rc |-> TRUE]
             ELSE [s |-> finish_beam(mpr(s)), rc |-> TRUE]
        ELSE [s |-> s, rc |-> FALSE]

affect_monster(s, i, in) ==
    LET Hit(s0, dd, m) ==
            LET s1 == mpr(update_hurt_or_helped(s0, m))
                s2 == IF dd.final > 0 THEN mpr_n(s1, dd.nmsg) ELSE s1
                Told(af) ==
                    [mpr_n(s2, af.nmsg) EXCEPT
                       !.mons[i].ench = @ \cup af.ench,
                       !.b.obvious_effect = @ \/ af.obvious]
                s3 == Told(mons_adjust_flavoured(m, s0.b, dd.postac, TRUE,
                                                 in.psn))
            IN  add_range_used(
                  apply_hit_funcs([s3 EXCEPT !.mons[i].hp = @ - dd.final,
                                             !.struck = Append(@, m.pos)]),
                  range_used_on_hit(s0.b))
        Blocked(ab, dd, m) == IF ab.rc THEN ab.s ELSE Hit(ab.s, dd, m)
        Damage(dd, b, m) ==
            LET engulfs == b.is_explosion \/ b.is_big_cloud
                rand_ev == random2(mons_ev(m), in.ev)
            IN  IF ~dd.ok THEN dd.s
                ELSE IF ~engulfs
                        /\ ~test_beam_hit(b.hit, rand_ev, b.is_beam, FALSE,
                                          FALSE, in)
                THEN mpr(dd.s)
                ELSE Blocked(IF ~engulfs /\ is_blockable(b)
                             THEN attempt_block(dd.s, i, in)
                             ELSE [s |-> dd.s, rc |-> FALSE], dd, m)
    IN  IF ~mons_alive(s.mons[i]) THEN apply_hit_funcs(s)
        ELSE IF s.b.flavour = "BEAM_DIGGING" THEN apply_hit_funcs(s)
        ELSE IF s.mons[i].type = "MONS_BUSH" /\ ~s.b.is_beam
                /\ ~s.b.is_explosion
                /\ s.b.flavour \in {"BEAM_MISSILE", "BEAM_MMISSILE"}
        THEN apply_hit_funcs(s)
        ELSE IF s.b.is_tracer THEN tracer_affect_monster(s, i, in)
        ELSE IF is_enchantment(s.b) THEN enchantment_affect_monster(s, i, in)
        ELSE IF s.mons[i].submerged /\ ~s.b.aimed_at_spot THEN s
        ELSE IF s.b.is_explosion /\ ~s.b.in_explosion_phase
        THEN finish_beam(s)
        ELSE Damage(determine_damage(s, i, in), s.b, s.mons[i])

(* ---------------------------------------------------------------------- *)
(* Ground, items                                                           *)
(* ---------------------------------------------------------------------- *)
affect_ground(s) ==
    IF s.b.is_explosion /\ ~s.b.in_explosion_phase THEN s
    ELSE IF s.b.is_tracer THEN s
    ELSE IF s.b.affects_items /\ is_fiery(s.b)
    THEN [s EXCEPT !.igrd = @ \ {<<pos(s.b), "scroll">>}]
    ELSE s

drop_object(s) ==
    IF s.b.is_tracer \/ ~s.b.was_missile THEN s
    ELSE [s EXCEPT !.igrd = @ \cup {<<pos(s.b), "missile">>}]

(* ---------------------------------------------------------------------- *)
(* affect_cell                                                             *)
(* ---------------------------------------------------------------------- *)
(* faulty variant: a monster is affected whatever hit the player before  *)
affect_cell_both(s, avoid_self, in) ==
    LET avoid_player  == avoid_self /\ YOU_KILL(s.b.thrower)
        avoid_monster == avoid_self /\ ~YOU_KILL(s.b.thrower)
                         /\ MON_KILL(s.b.thrower)
        Ground(s5) ==
            IF ~feat_is_solid(Grd(s5, pos(s5.b))) THEN affect_ground(s5)
            ELSE s5
        Monster(s4, hit_player, still_wall) ==
            Ground(IF ~still_wall /\ ~avoid_monster
                      /\ monster_at(s4, pos(s4.b)) # NON_MONSTER
                   THEN affect_monster(
                          [s4 EXCEPT !.touched =
                                       Append(@, <<"monster",
                                                   monster_at(s4,
                                                              pos(s4.b))>>)],
                          monster_at(s4, pos(s4.b)), in)
                   ELSE s4)
        Player(s3, still_wall) ==
            Monster(IF found_player(s3) /\ ~avoid_player
                    THEN affect_player(
                           [s3 EXCEPT !.touched = Append(@, <<"you", 0>>)], in)
                    ELSE s3,
                    found_player(s3) /\ ~avoid_player, still_wall)
        Walled(hw, was_solid, old_pos) ==
            IF hw.ended THEN hw.s
            ELSE Player(hw.s, was_solid /\ old_pos = pos(hw.s.b))
        Wall(s2, was_solid, old_pos) ==
            Walled(IF was_solid THEN hit_wall(s2, in)
                   ELSE [s |-> s2, ended |-> FALSE], was_solid, old_pos)
        WallMonster(s1, wm) ==
            Wall(IF feat_is_solid(Grd(s1, pos(s1.b))) /\ wm # NON_MONSTER
                 THEN IF can_affect_wall_monster(s1, s1.mons[wm])
                         /\ ~avoid_monster
                      THEN affect_monster(
                             [s1 EXCEPT !.touched =
                                          Append(@, <<"monster", wm>>)],
                             wm, in)
                      ELSE IF ~avoid_monster THEN mpr(s1) ELSE s1
                 ELSE s1,
                 feat_is_solid(Grd(s1, pos(s1.b))), pos(s1.b))
        Faked(s1) == WallMonster(s1, monster_at(s1, pos(s1.b)))
    IN  Faked(fake_flavour(IF pos(s.b) \in s.cgrid
                           THEN [s EXCEPT !.b.hit = Max(@ - 2, 0),
                                          !.touched = << >>]
                           ELSE [s EXCEPT !.touched = << >>],
                           in))

(* faulty variant: a monster in a wall that stays put is affected again  *)
affect_cell_twice(s, avoid_self, in) ==
    LET avoid_player  == avoid_self /\ YOU_KILL(s.b.thrower)
        avoid_monster == avoid_self /\ ~YOU_KILL(s.b.thrower)
                         /\ MON_KILL(s.b.thrower)
        Ground(s5) ==
            IF ~feat_is_solid(Grd(s5, pos(s5.b))) THEN affect_ground(s5)
            ELSE s5
        Monster(s4, hit_player, still_wall) ==
            Ground(IF (~hit_player \/ s4.b.is_beam \/ s4.b.is_explosion)
                      /\ ~avoid_monster
                      /\ monster_at(s4, pos(s4.b)) # NON_MONSTER
                   THEN affect_monster(
                          [s4 EXCEPT !.touched =
                                       Append(@, <<"monster",
                                                   monster_at(s4,
                                                              pos(s4.b))>>)],
                          monster_at(s4, pos(s4.b)), in)
                   ELSE s4)
        Player(s3, still_wall) ==
            Monster(IF found_player(s3) /\ ~avoid_player
                    THEN affect_player(
                           [s3 EXCEPT !.touched = Append(@, <<"you", 0>>)], in)
                    ELSE s3,
                    found_player(s3) /\ ~avoid_player, still_wall)
        Walled(hw, was_solid, old_pos) ==
            IF hw.ended THEN hw.s
            ELSE Player(hw.s, was_solid /\ old_pos = pos(hw.s.b))
        Wall(s2, was_solid, old_pos) ==
            Walled(IF was_solid THEN hit_wall(s2, in)
                   ELSE [s |-> s2, ended |-> FALSE], was_solid, old_pos)
        WallMonster(s1, wm) ==
            Wall(IF feat_is_solid(Grd(s1, pos(s1.b))) /\ wm # NON_MONSTER
                 THEN IF can_affect_wall_monster(s1, s1.mons[wm])
                         /\ ~avoid_monster
                      THEN affect_monster(
                             [s1 EXCEPT !.touched =
                                          Append(@, <<"monster", wm>>)],
                             wm, in)
                      ELSE IF ~avoid_monster THEN mpr(s1) ELSE s1
                 ELSE s1,
                 feat_is_solid(Grd(s1, pos(s1.b))), pos(s1.b))
        Faked(s1) == WallMonster(s1, monster_at(s1, pos(s1.b)))
    IN  Faked(fake_flavour(IF pos(s.b) \in s.cgrid
                           THEN [s EXCEPT !.b.hit = Max(@ - 2, 0),
                                          !.touched = << >>]
                           ELSE [s EXCEPT !.touched = << >>],
                           in))

affect_cell(s, avoid_self, in) ==
    LET avoid_player  == avoid_self /\ YOU_KILL(s.b.thrower)
        avoid_monster == avoid_self /\ ~YOU_KILL(s.b.thrower)
                         /\ MON_KILL(s.b.thrower)
        Ground(s5) ==
            IF ~feat_is_solid(Grd(s5, pos(s5.b))) THEN affect_ground(s5)
            ELSE s5
        Monster(s4, hit_player, still_wall) ==
            Ground(IF (~hit_player \/ s4.b.is_beam \/ s4.b.is_explosion)
                      /\ ~still_wall /\ ~avoid_monster
                      /\ monster_at(s4, pos(s4.b)) # NON_MONSTER
                   THEN affect_monster(
                          [s4 EXCEPT !.touched =
                                       Append(@, <<"monster",
                                                   monster_at(s4,
                                                              pos(s4.b))>>)],
                          monster_at(s4, pos(s4.b)), in)
                   ELSE s4)
        Player(s3, still_wall) ==
            Monster(IF found_player(s3) /\ ~avoid_player
                    THEN affect_player(
                           [s3 EXCEPT !.touched = Append(@, <<"you", 0>>)], in)
                    ELSE s3,
                    found_player(s3) /\ ~avoid_player, still_wall)
        Walled(hw, was_solid, old_pos) ==
            IF hw.ended THEN hw.s
            ELSE Player(hw.s, was_solid /\ old_pos = pos(hw.s.b))
        Wall(s2, was_solid, old_pos) ==
            Walled(IF was_solid THEN hit_wall(s2, in)
                   ELSE [s |-> s2, ended |-> FALSE], was_solid, old_pos)
        WallMonster(s1, wm) ==
            Wall(IF feat_is_solid(Grd(s1, pos(s1.b))) /\ wm # NON_MONSTER
                 THEN IF can_affect_wall_monster(s1, s1.mons[wm])
                         /\ ~avoid_monster
                      THEN affect_monster(
                             [s1 EXCEPT !.touched =
                                          Append(@, <<"monster", wm>>)],
                             wm, in)
                      ELSE IF ~avoid_monster THEN mpr(s1) ELSE s1
                 ELSE s1,
                 feat_is_solid(Grd(s1, pos(s1.b))), pos(s1.b))
        Faked(s1) == WallMonster(s1, monster_at(s1, pos(s1.b)))
    IN  Faked(fake_flavour(IF pos(s.b) \in s.cgrid
                           THEN [s EXCEPT !.b.hit = Max(@ - 2, 0),
                                          !.touched = << >>]
                           ELSE [s EXCEPT !.touched = << >>],
                           in))

(* ---------------------------------------------------------------------- *)
(* Explosions                                                              *)
(* ---------------------------------------------------------------------- *)
Deltas(r) == (-r .. r) \X (-r .. r)

exp_map_init(r) == [d \in Deltas(r + 1) |-> INT_MAX]

exp_map_at(m, d) == IF d \in DOMAIN m THEN m[d] ELSE INT_MAX

is_sanctuary(s, p) == p \in s.sanct

(* determine_affected_cells with the table of neighbour directions, dirs,  *)
(* made a parameter: dac_visit is the body of one call, dac_recurse its    *)
(* loop over the eight entries of the table                                *)
RECURSIVE dac_visit(_, _, _, _, _, _)
RECURSIVE dac_recurse(_, _, _, _, _, _, _)

(* faulty variant: the cost of the latest arrival replaces the cell's     *)
dac_visit_overwrite(dirs, s, m, delta, count, r) ==
    LET loc  == Add(pos(s.b), delta)
    IN  IF rdist(delta) > 9 \/ abs2(delta) > r * (r + 1) \/ count > 10 * r
           \/ ~map_bounds(loc) \/ is_sanctuary(s, loc)
        THEN m
        ELSE
        LET feat == Grd(s, loc)
            blocked ==
                \/ /\ \/ feat_is_wall(feat)
                      \/ feat = "DNGN_SECRET_DOOR"
                      \/ feat_is_closed_door(feat)
                   /\ ~(delta = <<0, 0>> /\ affects_wall(s.b, feat))
                \/ (feat_is_solid(feat) /\ ~feat_is_wall(feat))
        IN  IF blocked THEN m
            ELSE dac_recurse(dirs, s, [m EXCEPT ![delta] = count],
                             delta, count, r, 1)

(* faulty variant: the reach is the square of side 2r + 1                 *)
dac_visit_square(dirs, s, m, delta, count, r) ==
    LET loc  == Add(pos(s.b), delta)
    IN  IF rdist(delta) > 9 \/ rdist(delta) > r \/ count > 10 * r
           \/ ~map_bounds(loc) \/ is_sanctuary(s, loc)
        THEN m
        ELSE
        LET feat == Grd(s, loc)
            blocked ==
                \/ /\ \/ feat_is_wall(feat)
                      \/ feat = "DNGN_SECRET_DOOR"
                      \/ feat_is_closed_door(feat)
                   /\ ~(delta = <<0, 0>> /\ affects_wall(s.b, feat))
                \/ (feat_is_solid(feat) /\ ~feat_is_wall(feat))
        IN  IF blocked THEN m
            ELSE dac_recurse(dirs, s,
                             [m EXCEPT ![delta] = Min(count, m[delta])],
                             delta, count, r, 1)

(* faulty variant: the cost cut is at 20 * r                               *)
dac_visit_far(dirs, s, m, delta, count, r) ==
    LET loc  == Add(pos(s.b), delta)
    IN  IF rdist(delta) > 9 \/ abs2(delta) > r * (r + 1) \/ count > 20 * r
           \/ ~map_bounds(loc) \/ is_sanctuary(s, loc)
        THEN m
        ELSE
        LET feat == Grd(s, loc)
            blocked ==
                \/ /\ \/ feat_is_wall(feat)
                      \/ feat = "DNGN_SECRET_DOOR"
                      \/ feat_is_closed_door(feat)
                   /\ ~(delta = <<0, 0>> /\ affects_wall(s.b, feat))
                \/ (feat_is_solid(feat) /\ ~feat_is_wall(feat))
        IN  IF blocked THEN m
            ELSE dac_recurse(dirs, s,
                             [m EXCEPT ![delta] = Min(count, m[delta])],
                             delta, count, r, 1)

(* faulty variant: statues and other solid features that are not walls do *)
(* not stop the blast                                                     *)
dac_visit_through(dirs, s, m, delta, count, r) ==
    LET loc  == Add(pos(s.b), delta)
    IN  IF rdist(delta) > 9 \/ abs2(delta) > r * (r + 1) \/ count > 10 * r
           \/ ~map_bounds(loc) \/ is_sanctuary(s, loc)
        THEN m
        ELSE
        LET feat == Grd(s, loc)
            blocked ==
                /\ \/ feat_is_wall(feat)
                   \/ feat = "DNGN_SECRET_DOOR"
                   \/ feat_is_closed_door(feat)
                /\ ~(delta = <<0, 0>> /\ affects_wall(s.b, feat))
        IN  IF blocked THEN m
            ELSE dac_recurse(dirs, s,
                             [m EXCEPT ![delta] = Min(count, m[delta])],
                             delta, count, r, 1)

dac_visit(dirs, s, m, delta, count, r) ==
    LET loc  == Add(pos(s.b), delta)
    IN  IF rdist(delta) > 9 \/ abs2(delta) > r * (r + 1) \/ count > 10 * r
           \/ ~map_bounds(loc) \/ is_sanctuary(s, loc)
        THEN m
        ELSE
        LET feat == Grd(s, loc)
            blocked ==
                \/ /\ \/ feat_is_wall(feat)
                      \/ feat = "DNGN_SECRET_DOOR"
                      \/ feat_is_closed_door(feat)
                   /\ ~(delta = <<0, 0>> /\ affects_wall(s.b, feat))
                \/ (feat_is_solid(feat) /\ ~feat_is_wall(feat))
        IN  IF blocked THEN m
            ELSE dac_recurse(dirs, s,
                             [m EXCEPT ![delta] = Min(count, m[delta])],
                             delta, count, r, 1)

(* faulty variant: a step that reverses neither x nor y costs 17 too      *)
dac_recurse_dear(dirs, s, m, delta, count, r, i) ==
    IF i > 8 THEN m
    ELSE LET new_delta == Add(delta, dirs[i])
             cadd == 17
         IN  IF rdist(new_delta) > 9 \/ exp_map_at(m, new_delta) <= count
             THEN dac_recurse(dirs, s, m, delta, count, r, i + 1)
             ELSE dac_recurse(dirs, s,
                              dac_visit(dirs, s, m, new_delta,
                                        count + cadd, r),
                              delta, count, r, i + 1)

dac_recurse(dirs, s, m, delta, count, r, i) ==
    IF i > 8 THEN m
    ELSE LET new_delta == Add(delta, dirs[i])
             cadd == IF delta[1] * dirs[i][1] < 0
                        \/ delta[2] * dirs[i][2] < 0
                     THEN 17 ELSE 5
         IN  IF rdist(new_delta) > 9 \/ exp_map_at(m, new_delta) <= count
             THEN dac_recurse(dirs, s, m, delta, count, r, i + 1)
             ELSE dac_recurse(dirs, s,
                              dac_visit(dirs, s, m, new_delta,
                                        count + cadd, r),
                              delta, count, r, i + 1)

determine_affected_cells(s, m, delta, count, r) ==
    dac_visit(Compass, s, m, delta, count, r)

(* faulty variant: the corners of a ring are put in twice                  *)
RECURSIVE sweep_ring_corners(_, _)
sweep_ring_corners(rad, d) ==
    IF d > rad THEN << >>
    ELSE << <<-rad, d>>, <<rad, d>> >>
         \o << <<d, -rad>>, <<d, rad>> >>
         \o sweep_ring_corners(rad, d + 1)

RECURSIVE sweep_ring(_, _)
sweep_ring(rad, d) ==
    IF d > rad THEN << >>
    ELSE (IF d # rad /\ d # -rad
          THEN << <<-rad, d>>, <<rad, d>> >> ELSE << >>)
         \o << <<d, -rad>>, <<d, rad>> >>
         \o sweep_ring(rad, d + 1)

RECURSIVE radial_sweep_from(_, _)
radial_sweep_from(rad, r) ==
    IF rad > r THEN << >>
    ELSE sweep_ring(rad, -rad) \o radial_sweep_from(rad + 1, r)

radial_sweep(r) == << <<0, 0>> >> \o radial_sweep_from(1, r)

refine_for_explosion(s) ==
    LET s1 == [s EXCEPT !.b.ex_size = IF @ = 0 THEN 1 ELSE @,
                        !.b.msg_generated = TRUE]
        s2 == IF s1.b.name = "fireball"
              THEN [s1 EXCEPT !.b.flavour = "BEAM_FIRE", !.b.ex_size = 1]
              ELSE s1
        s3 == IF s2.b.name = "orb of electricity"
              THEN [s2 EXCEPT !.b.flavour = "BEAM_ELECTRICITY",
                              !.b.colour = "LIGHTCYAN",
                              !.b.damage.num = 1, !.b.ex_size = 2]
              ELSE s2
    IN  IF ~s.b.is_tracer THEN mpr(s3) ELSE s3

(* faulty variant: the flood fill runs before in_explosion_phase is set    *)
explode_begin_late(s) ==
    LET s0 == [s EXCEPT !.b.flavour =
                            IF s.b.real_flavour \in {"BEAM_CHAOS",
                                                     "BEAM_RANDOM"}
                            THEN s.b.real_flavour ELSE @,
                        !.b.real_flavour =
                            IF s.b.real_flavour \in {"BEAM_CHAOS",
                                                     "BEAM_RANDOM"}
                            THEN @ ELSE s.b.flavour]
        s1 == [s0 EXCEPT !.b.in_explosion_phase = TRUE]
        r  == Min(s1.b.ex_size, MAX_EXPLOSION_RADIUS)
    IN  IF is_sanctuary(s1, pos(s1.b))
        THEN [s |-> IF ~s1.b.is_tracer THEN mpr(s1) ELSE s1,
              cells |-> << >>, m |-> exp_map_init(r)]
        ELSE LET m == determine_affected_cells(s0, exp_map_init(r),
                                               <<0, 0>>, 0, r)
                 sw == radial_sweep(r)
             IN  [s |-> s1,
                  cells |-> SelectSeq(sw, LAMBDA d : exp_map_at(m, d)
                                                       < INT_MAX),
                  m |-> m]

(* explode() up to the affect pass: the phase flag and the cost map       *)
explode_begin(s) ==
    LET s1 == [s EXCEPT !.b.flavour =
                            IF s.b.real_flavour \in {"BEAM_CHAOS",
                                                     "BEAM_RANDOM"}
                            THEN s.b.real_flavour ELSE @,
                        !.b.real_flavour =
                            IF s.b.real_flavour \in {"BEAM_CHAOS",
                                                     "BEAM_RANDOM"}
                            THEN @ ELSE s.b.flavour,
                        !.b.in_explosion_phase = TRUE]
        r  == Min(s1.b.ex_size, MAX_EXPLOSION_RADIUS)
    IN  IF is_sanctuary(s1, pos(s1.b))
        THEN [s |-> IF ~s1.b.is_tracer THEN mpr(s1) ELSE s1,
              cells |-> << >>, m |-> exp_map_init(r)]
        ELSE LET m == determine_affected_cells(s1, exp_map_init(r),
                                               <<0, 0>>, 0, r)
                 sw == radial_sweep(r)
             IN  [s |-> s1,
                  cells |-> SelectSeq(sw, LAMBDA d : exp_map_at(m, d)
                                                       < INT_MAX),
                  m |-> m]

explosion_affect_cell(s, p, in) ==
    LET Restore(s2, orig_pos) ==
            [s2 EXCEPT !.b.flavour = s2.b.real_flavour, !.b.target = orig_pos]
    IN  Restore(affect_cell([fake_flavour(s, in) EXCEPT !.b.target = p],
                            FALSE, in),
                s.b.target)

(* ---------------------------------------------------------------------- *)
(* fire(), do_fire()                                                       *)
(* ---------------------------------------------------------------------- *)
(* faulty variant: the ray and the colour are left as the tracer had them *)
undo_tracer_partly(orig, copy) ==
    [orig EXCEPT !.target = copy.target,
                 !.source = copy.source,
                 !.aimed_at_spot = copy.aimed_at_spot,
                 !.range_used = copy.range_used,
                 !.auto_hit = copy.auto_hit,
                 !.flavour = copy.flavour,
                 !.real_flavour = copy.real_flavour]

undo_tracer(orig, copy) ==
    [orig EXCEPT !.target = copy.target,
                 !.source = copy.source,
                 !.aimed_at_spot = copy.aimed_at_spot,
                 !.range_used = copy.range_used,
                 !.auto_hit = copy.auto_hit,
                 !.ray = copy.ray,
                 !.colour = copy.colour,
                 !.flavour = copy.flavour,
                 !.real_flavour = copy.real_flavour]

initialise_fire(b) ==
    LET b1 == [b EXCEPT !.range_used = 0,
                        !.in_explosion_phase = FALSE,
                        !.use_target_as_pos = FALSE]
        b2 == IF b1.target = b1.source
              THEN [b1 EXCEPT !.range = 0, !.aimed_at_feet = TRUE,
                              !.auto_hit = TRUE, !.aimed_at_spot = TRUE,
                              !.use_target_as_pos = TRUE]
              ELSE b1
        b3 == IF b2.range = -1 THEN [b2 EXCEPT !.range = LOS_RADIUS] ELSE b2
        b4 == [b3 EXCEPT !.real_flavour = b3.flavour,
                         !.message_cache = {}]
    IN  [b4 EXCEPT !.seen = @ \/ (b4.range > 0 /\ ~invisible(b4))
                            \/ (b4.target = b4.source /\ ~invisible(b4))]

choose_ray(b) == [b EXCEPT !.ray = find_ray(b.source, b.target)]

(* faulty variant: the first step is free for a bolt aimed at the feet     *)
do_fire_begin_feet(b) ==
    LET b1 == initialise_fire(b)
    IN  IF b1.range <= b1.range_used /\ b1.range > 0
        THEN [b |-> b1, entered |-> FALSE, avoid_self |-> FALSE]
        ELSE LET av == b1.aimed_at_feet
                 b2 == [b1 EXCEPT !.msg_generated = FALSE]
             IN  [b |-> IF ~b2.aimed_at_feet THEN choose_ray(b2) ELSE b2,
                  entered |-> TRUE, avoid_self |-> av]

(* do_fire from its entry to the head of the travel loop                  *)
do_fire_begin(b) ==
    LET b1 == initialise_fire(b)
    IN  IF b1.range <= b1.range_used /\ b1.range > 0
        THEN [b |-> b1, entered |-> FALSE, avoid_self |-> FALSE]
        ELSE LET av == ~b1.aimed_at_feet
                       /\ (~b1.is_explosion \/ ~b1.in_explosion_phase)
                 b2 == [b1 EXCEPT !.msg_generated = FALSE]
             IN  [b |-> IF ~b2.aimed_at_feet THEN choose_ray(b2) ELSE b2,
                  entered |-> TRUE, avoid_self |-> av]

(* faulty variant: the loop goes on when the range is just spent          *)
range_exhausted_late(b) == b.range_used > b.range

(* the travel loop's exit test on the range                               *)
range_exhausted(b) == b.range_used >= b.range

(* faulty variant: the step on the source cell is charged like any other  *)
do_fire_step_charged(s, av, in) ==
    LET Advance(s3) ==
            LET was_seen == s3.b.seen
                s4 == IF ~was_seen /\ s3.b.range > 0 /\ ~invisible(s3.b)
                      THEN [s3 EXCEPT !.b.seen = TRUE] ELSE s3
                s5 == IF ~was_seen /\ s4.b.seen /\ ~s4.b.is_tracer
                      THEN mpr(s4) ELSE s4
                s6 == IF s5.b.real_flavour = "BEAM_CHAOS"
                      THEN [s5 EXCEPT !.b.flavour = s5.b.real_flavour]
                      ELSE s5
            IN  [s |-> [s6 EXCEPT !.b.ray = ray_advance(@)], next |-> "loop"]
        Target(s3, at_target) ==
            IF at_target /\ stop_at_target(s3.b)
            THEN [s |-> s3, next |-> "break"]
            ELSE Advance(s3)
        Check(s2) ==
            IF range_exhausted(s2.b) THEN [s |-> s2, next |-> "break"]
            ELSE IF s2.b.beam_cancelled THEN [s |-> s2, next |-> "return"]
            ELSE Target(IF pos(s2.b) = s2.b.target
                        THEN [s2 EXCEPT !.b.passed_target = TRUE] ELSE s2,
                        pos(s2.b) = s2.b.target)
        Used(s1) == Check(add_range_used(s1, 1))
        Pushed(s0) ==
            Used(IF ~s0.b.affects_nothing THEN affect_cell(s0, av, in)
                 ELSE s0)
    IN  Pushed([s EXCEPT !.b.path_taken = Append(@, pos(s.b))])

(* one iteration of the travel loop                                       *)
do_fire_step(s, av, in) ==
    LET Advance(s3) ==
            LET was_seen == s3.b.seen
                s4 == IF ~was_seen /\ s3.b.range > 0 /\ ~invisible(s3.b)
                      THEN [s3 EXCEPT !.b.seen = TRUE] ELSE s3
                s5 == IF ~was_seen /\ s4.b.seen /\ ~s4.b.is_tracer
                      THEN mpr(s4) ELSE s4
                s6 == IF s5.b.real_flavour = "BEAM_CHAOS"
                      THEN [s5 EXCEPT !.b.flavour = s5.b.real_flavour]
                      ELSE s5
            IN  [s |-> [s6 EXCEPT !.b.ray = ray_advance(@)], next |-> "loop"]
        Target(s3, at_target) ==
            IF at_target /\ stop_at_target(s3.b)
            THEN [s |-> s3, next |-> "break"]
            ELSE Advance(s3)
        Check(s2) ==
            IF range_exhausted(s2.b) THEN [s |-> s2, next |-> "break"]
            ELSE IF s2.b.beam_cancelled THEN [s |-> s2, next |-> "return"]
            ELSE Target(IF pos(s2.b) = s2.b.target
                        THEN [s2 EXCEPT !.b.passed_target = TRUE] ELSE s2,
                        pos(s2.b) = s2.b.target)
        Used(s1) == Check(IF ~av THEN add_range_used(s1, 1) ELSE s1)
        Pushed(s0) ==
            Used(IF ~s0.b.affects_nothing THEN affect_cell(s0, av, in)
                 ELSE s0)
    IN  Pushed([s EXCEPT !.b.path_taken = Append(@, pos(s.b))])

RECURSIVE regress_into_bounds(_, _)
regress_into_bounds(ray, tries) ==
    IF ~in_bounds(ray.pos) /\ tries > 0
    THEN regress_into_bounds(ray_regress(ray), tries - 1)
    ELSE ray

(* the tail of do_fire after affect_endpoint                              *)
do_fire_tail(s) ==
    IF s.b.is_tracer \/ s.b.affects_nothing THEN s
    ELSE IF ~s.b.msg_generated /\ ~s.b.obvious_effect /\ is_enchantment(s.b)
            /\ s.b.real_flavour # "BEAM_CHAOS" /\ YOU_KILL(s.b.thrower)
    THEN mpr(s) ELSE s

(* ---------------------------------------------------------------------- *)
(* zap_data (the entries used here, at power 0), _zappy and bolt::bolt()   *)
(* ---------------------------------------------------------------------- *)
ZapTypes == {"ZAP_STONE_ARROW", "ZAP_FIRE", "ZAP_LIGHTNING", "ZAP_DIGGING",
             "ZAP_SLOWING", "ZAP_FIREBALL"}

dice_def(n, sz) == [num |-> n, size |-> sz]
calc_dice(n, max_damage) == dice_def(n, max_damage \div n)

zap_data(z) ==
    CASE z = "ZAP_SLOWING" ->
           [colour |-> "BLACK",
            name |-> "0", flavour |-> "BEAM_SLOW", always_obvious |-> FALSE,
            can_beam |-> FALSE, is_explosion |-> FALSE, hit |-> 0,
            has_damage |-> FALSE, damage |-> dice_def(0, 0)]
      [] z = "ZAP_DIGGING" ->
           [colour |-> "BLACK",
            name |-> "0", flavour |-> "BEAM_DIGGING",
            always_obvious |-> FALSE, can_beam |-> TRUE,
            is_explosion |-> FALSE, hit |-> 0,
            has_damage |-> FALSE, damage |-> dice_def(0, 0)]
      [] z = "ZAP_FIRE" ->
           [colour |-> "RED",
            name |-> "bolt of fire", flavour |-> "BEAM_FIRE",
            always_obvious |-> TRUE, can_beam |-> TRUE,
            is_explosion |-> FALSE, hit |-> 10,
            has_damage |-> TRUE, damage |-> calc_dice(6, 18)]
      [] z = "ZAP_LIGHTNING" ->
           [colour |-> "LIGHTCYAN",
            name |-> "bolt of lightning", flavour |-> "BEAM_ELECTRICITY",
            always_obvious |-> TRUE, can_beam |-> TRUE,
            is_explosion |-> FALSE, hit |-> 7,
            has_damage |-> TRUE, damage |-> calc_dice(1, 10)]
      [] z = "ZAP_FIREBALL" ->
           [colour |-> "RED",
            name |-> "fireball", flavour |-> "BEAM_FIRE",
            always_obvious |-> FALSE, can_beam |-> FALSE,
            is_explosion |-> TRUE, hit |-> 40,
            has_damage |-> TRUE, damage |-> calc_dice(3, 10)]
      [] z = "ZAP_STONE_ARROW" ->
           [colour |-> "LIGHTGREY",
            name |-> "stone arrow", flavour |-> "BEAM_MMISSILE",
            always_obvious |-> TRUE, can_beam |-> FALSE,
            is_explosion |-> FALSE, hit |-> 8,
            has_damage |-> TRUE, damage |-> dice_def(2, 5)]

(* _zappy: look z_type up in zap_data and fill the bolt from the entry;   *)
(* with no entry found it returns with the bolt as it was                 *)
zappy(b, z_type) ==
    IF z_type \notin ZapTypes THEN b
    ELSE LET z == zap_data(z_type)
         IN  [b EXCEPT !.name = z.name, !.colour = z.colour,
                       !.flavour = z.flavour,
                       !.real_flavour = z.flavour,
                       !.obvious_effect = z.always_obvious,
                       !.is_beam = z.can_beam,
                       !.is_explosion = z.is_explosion,
                       !.hit = IF z.flavour \in Enchantments
                               THEN AUTOMATIC_HIT ELSE z.hit,
                       !.damage = IF z.has_damage THEN z.damage ELSE @]

bolt_ctor ==
    [range |-> -2, flavour |-> "BEAM_MAGIC", real_flavour |-> "BEAM_MAGIC",
     drop_item |-> FALSE, was_missile |-> FALSE,
     source |-> <<0, 0>>, target |-> <<0, 0>>,
     damage |-> dice_def(0, 0), hit |-> 0, thrower |-> "KILL_MISC",
     ex_size |-> 0, beam_source |-> NON_MONSTER, name |-> "",
     colour |-> "BLACK",
     is_beam |-> FALSE, is_explosion |-> FALSE, is_big_cloud |-> FALSE,
     aimed_at_spot |-> FALSE, affects_nothing |-> FALSE,
     affects_items |-> TRUE, special_explosion |-> FALSE,
     dmg_hook |-> FALSE, obvious_effect |-> FALSE, seen |-> FALSE,
     heard |-> FALSE, path_taken |-> << >>, range_used |-> 0,
     is_tracer |-> FALSE, aimed_at_feet |-> FALSE, msg_generated |-> FALSE,
     passed_target |-> FALSE, in_explosion_phase |-> FALSE,
     attitude |-> "ATT_HOSTILE", beam_cancelled |-> FALSE,
     dont_stop_player |-> FALSE, bounces |-> 0, bounce_pos |-> <<0, 0>>,
     reflections |-> 0, reflector |-> -1, auto_hit |-> FALSE,
     ray |-> [pos |-> <<0, 0>>, dir |-> <<0, 0>>],
     use_target_as_pos |-> FALSE, message_cache |-> {},
     foe_info |-> tracer_info_reset, friend_info |-> tracer_info_reset]

(* ---------------------------------------------------------------------- *)
(* The dungeon the bolts are fired in                                      *)
(* ---------------------------------------------------------------------- *)
SourcePos == <<2, 1>>
TargetPos == <<5, 1>>
FireRange == 5

Layouts == {"open", "rock4", "rock34", "rock5", "rock6", "metal4", "wax4",
            "cell"}

LayoutFeat(l, x) ==
    CASE l = "rock4" /\ x = 4 -> "DNGN_ROCK_WALL"
      [] l = "rock34" /\ x \in {3, 4} -> "DNGN_ROCK_WALL"
      [] l = "rock5" /\ x = 5 -> "DNGN_ROCK_WALL"
      [] l = "rock6" /\ x = 6 -> "DNGN_ROCK_WALL"
      [] l = "metal4" /\ x = 4 -> "DNGN_METAL_WALL"
      [] l = "wax4" /\ x = 4 -> "DNGN_WAX_WALL"
      [] l = "cell" /\ x \in {1, 3} -> "DNGN_ROCK_WALL"
      [] OTHER -> "DNGN_FLOOR"

MkGrd(l) == [p \in Cells |-> IF ~in_bounds(p) THEN "DNGN_PERMAROCK_WALL"
                             ELSE LayoutFeat(l, p[1])]

(* NUM_ZAPS: a zap_type value that has no entry in zap_data               *)
OtherKinds == {"arrow", "bolt of chaos", "exploding arrow", "NUM_ZAPS",
               "arrow of chaos"}
Kinds == ZapTypes \cup OtherKinds
Occupants == {"none", "foe", "friend", "reflect", "elemental", "submerged",
              "worm", "reflect4"}
Extras == {"none", "cloud", "hook", "spot", "feet", "you3", "tracer"}

(* the firings looked at: every kind in the open with and without a foe,   *)
(* and each other occupant, layout and extra with the kinds it matters to  *)
Scenarios ==
    {sc \in [who : {"player", "monster"}, kind : Kinds, layout : Layouts,
             occ : Occupants, extra : Extras] :
        /\ (sc.layout \notin {"open", "rock5"})
              => (sc.occ \in {"foe", "worm", "reflect4"} /\ sc.extra = "none")
        /\ (sc.layout = "rock5")
              => (sc.occ = "none" /\ sc.extra \in {"none", "spot"})
        /\ (sc.kind = "arrow of chaos")
              => (sc.who = "player" /\ sc.layout = "rock6"
                  /\ sc.occ = "reflect4")
        /\ (sc.extra # "none")
              => \/ sc.occ \in {"foe", "friend"}
                 \/ (sc.extra = "spot"
                     /\ (sc.occ = "reflect" \/ sc.layout = "rock5"))
        /\ (sc.kind = "bolt of chaos") => (sc.extra = "none")
        /\ (sc.kind = "NUM_ZAPS")
              => (sc.who = "player" /\ sc.layout = "open"
                  /\ sc.occ \in {"none", "foe"} /\ sc.extra = "none")
        /\ (sc.kind = "bolt of chaos" /\ sc.layout = "cell")
              => (sc.who = "player" /\ sc.occ = "foe")
        /\ CASE sc.occ = "friend" ->
                   sc.kind \in {"ZAP_FIRE", "ZAP_STONE_ARROW", "ZAP_SLOWING",
                                "ZAP_FIREBALL", "exploding arrow"}
              [] sc.occ = "reflect" ->
                   sc.kind \in {"ZAP_STONE_ARROW", "arrow"}
              [] sc.occ = "elemental" ->
                   sc.kind \in {"ZAP_FIRE", "ZAP_FIREBALL"}
              [] sc.occ = "submerged" ->
                   sc.kind \in {"ZAP_LIGHTNING", "ZAP_STONE_ARROW",
                                "ZAP_SLOWING"}
              [] sc.occ = "reflect4" -> sc.kind = "arrow of chaos"
              [] sc.occ = "worm" ->
                   /\ sc.layout \in {"rock4", "metal4"}
                   /\ sc.kind \in {"ZAP_LIGHTNING", "ZAP_STONE_ARROW",
                                    "ZAP_SLOWING"}
              [] OTHER -> TRUE
        /\ CASE sc.layout = "rock4" ->
                   sc.kind \in ZapTypes \cup {"arrow"}
              [] sc.layout = "rock34" ->
                   sc.kind \in {"ZAP_DIGGING", "ZAP_FIRE"}
              [] sc.layout = "rock5" ->
                   sc.kind \in {"ZAP_LIGHTNING", "ZAP_FIREBALL", "arrow",
                                "ZAP_STONE_ARROW"}
              [] sc.layout = "rock6" ->
                   sc.kind \in {"ZAP_LIGHTNING", "ZAP_FIREBALL", "arrow",
                                "bolt of chaos", "arrow of chaos"}
              [] sc.layout = "metal4" ->
                   sc.kind \in {"ZAP_LIGHTNING", "ZAP_DIGGING",
                                "ZAP_STONE_ARROW"}
              [] sc.layout = "wax4" ->
                   sc.kind \in {"ZAP_FIRE", "ZAP_FIREBALL"}
              [] sc.layout = "cell" ->
                   sc.kind \in {"ZAP_LIGHTNING", "bolt of chaos"}
              [] OTHER -> TRUE
        /\ CASE sc.extra = "cloud" ->
                   sc.kind \in {"ZAP_STONE_ARROW", "arrow", "ZAP_FIRE"}
              [] sc.extra = "hook" ->
                   sc.kind \in {"ZAP_STONE_ARROW", "ZAP_FIRE"}
              [] sc.extra = "spot" ->
                   sc.kind \in {"ZAP_STONE_ARROW", "ZAP_FIREBALL", "arrow",
                                "ZAP_LIGHTNING"}
              [] sc.extra = "feet" ->
                   sc.kind \in {"ZAP_FIREBALL", "ZAP_SLOWING", "ZAP_FIRE"}
              [] sc.extra = "you3" ->
                   /\ sc.who = "monster"
                   /\ sc.kind \in {"ZAP_FIRE", "ZAP_STONE_ARROW",
                                    "ZAP_SLOWING", "exploding arrow"}
              [] sc.extra = "tracer" ->
                   sc.who = "player" /\ sc.kind = "exploding arrow"
              [] OTHER -> TRUE}

no_monster ==
    [pos |-> <<0, 0>>, hp |-> 0, att |-> "ATT_HOSTILE", type |-> "MONS_ORC",
     shield |-> "none", ench |-> {}, submerged |-> FALSE, res |-> 0,
     ac |-> 1]

MkMons(sc) ==
    LET foe_att == IF sc.who = "player" THEN "ATT_HOSTILE" ELSE "ATT_FRIENDLY"
        pal_att == IF sc.who = "player" THEN "ATT_FRIENDLY" ELSE "ATT_HOSTILE"
        thrower == [no_monster EXCEPT !.pos = SourcePos, !.hp = 10]
        victim  == [no_monster EXCEPT !.pos = TargetPos, !.hp = 10,
                                      !.att = foe_att]
    IN  [i \in MonIds |->
           IF i = 1 THEN (IF sc.who = "monster" THEN thrower ELSE no_monster)
           ELSE CASE sc.occ = "foe" -> victim
                  [] sc.occ = "friend" -> [victim EXCEPT !.att = pal_att]
                  [] sc.occ = "reflect" -> [victim EXCEPT !.shield = "reflect"]
                  [] sc.occ = "reflect4" ->
                       [victim EXCEPT !.shield = "reflect",
                                      !.pos = <<4, 1>>]
                  [] sc.occ = "elemental" ->
                       [victim EXCEPT !.type = "MONS_FIRE_ELEMENTAL",
                                      !.ac = 0]
                  [] sc.occ = "submerged" -> [victim EXCEPT !.submerged = TRUE]
                  [] sc.occ = "worm" ->
                       [victim EXCEPT !.type = "MONS_ROCK_WORM",
                                      !.pos = <<4, 1>>]
                  [] OTHER -> no_monster]

MkYou(sc) ==
    [pos |-> IF sc.who = "player" THEN SourcePos
             ELSE IF sc.extra = "you3" THEN <<3, 1>> ELSE <<6, 1>>,
     hp |-> 20, ac |-> 1, ev |-> 3, shield |-> "none", ench |-> {},
     xl |-> 5, res |-> 0, light_armour |-> FALSE]

(* the bolt as the caller hands it over: aim, range and thrower filled,   *)
(* and is_tracer set by a caller that wants a dry run of its own bolt     *)
MkAim(sc) ==
    [bolt_ctor EXCEPT
       !.range = FireRange,
       !.is_tracer = (sc.extra = "tracer"),
       !.source = SourcePos,
       !.target = IF sc.extra = "feet" THEN SourcePos ELSE TargetPos,
       !.aimed_at_spot = (sc.extra = "spot"),
       !.dmg_hook = (sc.extra = "hook"),
       !.thrower = IF sc.who = "player" THEN "KILL_YOU_MISSILE"
                   ELSE "KILL_MON_MISSILE",
       !.beam_source = IF sc.who = "player" THEN NON_MONSTER ELSE 1,
       !.attitude = IF sc.who = "player" THEN "ATT_FRIENDLY"
                    ELSE "ATT_HOSTILE"]

MkArrow(b) ==
    [b EXCEPT !.name = "arrow", !.flavour = "BEAM_MISSILE",
              !.real_flavour = "BEAM_MISSILE", !.hit = 8,
              !.damage = dice_def(1, 6), !.drop_item = TRUE,
              !.was_missile = TRUE]

MkBolt(sc) ==
    LET b == MkAim(sc)
    IN  CASE sc.kind \in ZapTypes \cup {"NUM_ZAPS"} ->
               IF sc.who = "player" THEN b ELSE zappy(b, sc.kind)
          [] sc.kind = "arrow" -> MkArrow(b)
          [] sc.kind = "exploding arrow" ->
               [MkArrow(b) EXCEPT !.special_explosion = TRUE]
          [] sc.kind = "arrow of chaos" ->
               [MkArrow(b) EXCEPT !.name = "arrow of chaos",
                                  !.flavour = "BEAM_CHAOS",
                                  !.real_flavour = "BEAM_CHAOS"]
          [] OTHER ->
               [b EXCEPT !.name = "bolt of chaos", !.flavour = "BEAM_CHAOS",
                         !.real_flavour = "BEAM_CHAOS", !.is_beam = TRUE,
                         !.hit = 10, !.damage = dice_def(3, 3)]

MkChild(sc) ==
    [MkAim(sc) EXCEPT !.name = "fiery explosion", !.flavour = "BEAM_FIRE",
                      !.real_flavour = "BEAM_FIRE", !.is_explosion = TRUE,
                      !.ex_size = 1, !.hit = AUTOMATIC_HIT,
                      !.damage = dice_def(2, 5)]

(* ---------------------------------------------------------------------- *)
(* State                                                                   *)
(* ---------------------------------------------------------------------- *)
VARIABLES
    bolt,               \* the caller's bolt (pbolt / *this)
    special_explosion,  \* the bolt bolt.special_explosion points to
    grd, mons, you, cgrid, igrd, sanct,   \* the dungeon
    msgs, prompts,      \* messages printed, yes/no prompts asked
    struck,             \* cells whose occupant the current firing affected
    touched,            \* the calls of affect_player (<<"you", 0>>) and
                        \* of affect_monster (<<"monster", index>>) that
                        \* the latest affect_cell made, in their order
    pc,                 \* idle, loop, post, explode, finish, done
    avoid_self,         \* do_fire's local
    boltcopy, childcopy,\* fire()'s copies, taken on entry
    caller,             \* the function that called fire()
    runs,               \* firings completed
    exploder,           \* which bolt is in explode(): self or child
    cells,              \* cells the affect pass has still to visit
    exp_map,            \* explode()'s cost map, by offset from the centre
    tallies,            \* <<foe_info, friend_info>> after each fire_tracer
    agent, ztype,       \* who fires, and the zap type (player zaps)
    adjust,             \* mons_adjust_flavoured's damage argument and the
                        \* values its calls returned
    probe               \* the arguments drawn for the function a
                        \* specification calls on its own, and the values
                        \* its calls returned

world == <<grd, mons, you, cgrid, igrd, sanct, msgs, prompts>>
ctl == <<boltcopy, childcopy, caller, runs, tallies, agent, ztype, adjust,
        probe>>
vars == <<bolt, special_explosion, grd, mons, you, cgrid, igrd, sanct, msgs,
          prompts, struck, touched, pc, avoid_self, boltcopy, childcopy,
          caller,
          runs, exploder, cells, exp_map, tallies, agent, ztype, adjust,
          probe>>

(* a cap on the cells of one path, above what any firing needs: a run     *)
(* enters the loop at most range + 1 times, and a bounce in each of them  *)
(* hands at most twice the range back for the next run                    *)
MaxPath == FireRange * 3 ^ (MaxRuns - 1) + 2

Coin == 0 .. 1

(* the threaded state of the operators above, for the acting bolt b       *)
S(b) == [b |-> b, grd |-> grd, mons |-> mons, you |-> you, cgrid |-> cgrid,
         igrd |-> igrd, sanct |-> sanct, msgs |-> msgs, prompts |-> prompts,
         struck |-> struck, touched |-> touched]

Commit(s) ==
    /\ grd' = s.grd /\ mons' = s.mons /\ you' = s.you /\ cgrid' = s.cgrid
    /\ igrd' = s.igrd /\ msgs' = s.msgs /\ prompts' = s.prompts
    /\ struck' = s.struck /\ touched' = s.touched /\ sanct' = sanct

(* the draws affect_cell can read for bolt b at cell p when the bolt's    *)
(* flavour in that cell is f; a draw the code does not read is fixed      *)
InputsFlav(b, p, f) ==
    LET st    == S(b)
        solid == cell_is_solid(st, p)
        actor == solid \/ monster_at(st, p) # NON_MONSTER \/ p = you.pos
        live  == ~b.is_tracer /\ actor
        chaos == b.real_flavour = "BEAM_CHAOS"
        ench  == live /\ f \in Enchantments
        dmg   == live /\ f \notin Enchantments
        tohit == dmg /\ ~b.is_explosion /\ ~b.is_big_cloud
        block == tohit /\ ~b.is_beam
                 /\ (you.shield # "none"
                     \/ \E i \in MonIds : mons[i].shield # "none")
    IN  [yn : IF b.is_tracer /\ YOU_KILL(b.thrower) /\ actor
              THEN BOOLEAN ELSE {TRUE},
         r0 : {0},
         r1 : IF tohit THEN Coin ELSE {0},
         r2 : IF tohit THEN Coin ELSE {0},
         ev : IF tohit THEN Rolls ELSE {0},
         dmg : IF dmg THEN Coin ELSE {0},
         acr : IF dmg THEN Coin ELSE {0},
         acr2 : IF dmg /\ f = "BEAM_FRAG" THEN Coin ELSE {0},
         acr3 : IF dmg /\ f = "BEAM_FRAG" THEN Coin ELSE {0},
         blk : IF block THEN Coin ELSE {0},
         res : IF ench THEN Coin ELSE {0},
         psn : IF dmg /\ f = "BEAM_POISON" THEN Coin ELSE {0},
         flav : {f},
         shift : IF chaos /\ solid THEN {<<c>> : c \in Coin}
                 ELSE {<<0>>}]

Inputs(b, p) ==
    IF b.real_flavour = "BEAM_CHAOS"
    THEN UNION {InputsFlav(b, p, f) : f \in ChaosFlavours}
    ELSE InputsFlav(b, p, b.flavour)

Init ==
    \E sc \in Scenarios :
        /\ bolt = MkBolt(sc)
        /\ special_explosion = MkChild(sc)
        /\ grd = MkGrd(sc.layout)
        /\ mons = MkMons(sc)
        /\ you = MkYou(sc)
        /\ cgrid = IF sc.extra = "cloud" THEN {<<3, 1>>} ELSE {}
        /\ igrd = {<<<<4, 1>>, "scroll">>}
        /\ sanct = {}
        /\ msgs = 0 /\ prompts = 0 /\ struck = << >> /\ touched = << >>
        /\ pc = "idle" /\ avoid_self = FALSE
        /\ boltcopy = MkBolt(sc) /\ childcopy = MkChild(sc)
        /\ caller = "none" /\ runs = 0
        /\ exploder = "self" /\ cells = << >> /\ tallies = << >>
        /\ exp_map = exp_map_init(0)
        /\ agent = sc.who
        /\ ztype = IF sc.kind \in ZapTypes \cup {"NUM_ZAPS"} THEN sc.kind
                   ELSE "none"
        /\ adjust = [original |-> 0, results |-> << >>]
        /\ probe = << >>

(* ---------------------------------------------------------------------- *)
(* Callers: player_tracer, zapping, fire_tracer, a direct fire()           *)
(* ---------------------------------------------------------------------- *)
player_tracer_setup(b, z) ==
    [zappy(b, z) EXCEPT
       !.name = "unimportant", !.is_tracer = TRUE, !.source = you.pos,
       !.attitude = "ATT_FRIENDLY", !.thrower = "KILL_YOU_MISSILE",
       !.friend_info = tracer_info_reset, !.foe_info = tracer_info_reset,
       !.beam_cancelled = FALSE, !.dont_stop_player = FALSE,
       !.seen = FALSE, !.heard = FALSE, !.reflections = 0, !.bounces = 0]

zapping_setup(b, z) ==
    LET b1 == zappy(b, z)
        b2 == IF z = "ZAP_LIGHTNING" THEN [b1 EXCEPT !.heard = TRUE] ELSE b1
    IN  IF z = "ZAP_DIGGING" THEN [b2 EXCEPT !.aimed_at_spot = FALSE] ELSE b2

fire_tracer_setup(b, i) ==
    [b EXCEPT !.is_tracer = TRUE, !.source = mons[i].pos,
              !.beam_source = i, !.attitude = mons[i].att,
              !.foe_info = tracer_info_reset,
              !.friend_info = tracer_info_reset,
              !.reflections = 0, !.bounces = 0,
              !.in_explosion_phase = FALSE]

(* fire() up to the head of do_fire's travel loop                         *)
StartFire(b, c) ==
    LET b1  == [b EXCEPT !.path_taken = << >>]
        se1 == IF b1.special_explosion
               THEN [special_explosion EXCEPT !.is_tracer = b1.is_tracer]
               ELSE special_explosion
        df  == do_fire_begin(b1)
    IN  /\ bolt' = df.b
        /\ special_explosion' = se1
        /\ boltcopy' = b1
        /\ childcopy' = se1
        /\ avoid_self' = df.avoid_self
        /\ pc' = IF df.entered THEN "loop" ELSE "finish"
        /\ caller' = c
        /\ struck' = << >> /\ touched' = << >>
        /\ exploder' = "self" /\ cells' = << >>
        /\ UNCHANGED <<world, runs, tallies, agent, ztype, exp_map, adjust,
                       probe>>

PlayerTracer ==
    /\ pc = "idle" /\ runs < MaxRuns
    /\ agent = "player" /\ ztype # "none"
    /\ StartFire(player_tracer_setup(bolt, ztype), "player_tracer")

Zapping ==
    /\ pc = "idle" /\ runs < MaxRuns
    /\ agent = "player" /\ ztype # "none"
    /\ \E needs_tracer \in BOOLEAN :
         LET b == [bolt EXCEPT !.thrower = "KILL_YOU_MISSILE"]
         IN  IF needs_tracer
             THEN StartFire(player_tracer_setup(b, ztype), "zapping_tracer")
             ELSE StartFire(zapping_setup(b, ztype), "zapping")

FireTracer ==
    /\ pc = "idle" /\ runs < MaxRuns
    /\ agent = "monster"
    /\ StartFire(fire_tracer_setup(bolt, 1), "fire_tracer")

Fire ==
    /\ pc = "idle" /\ runs < MaxRuns
    /\ agent = "monster" \/ ztype = "none"
    /\ StartFire(bolt, "fire")

(* ---------------------------------------------------------------------- *)
(* do_fire: the travel loop, the endpoint, the explosion                   *)
(* ---------------------------------------------------------------------- *)
DoFireStep ==
    /\ pc = "loop"
    /\ Len(bolt.path_taken) < MaxPath
    /\ \E in \in Inputs(bolt, pos(bolt)) :
         LET Step(r) ==
                 /\ bolt' = r.s.b
                 /\ Commit(r.s)
                 /\ pc' = IF r.next = "break" THEN "post"
                          ELSE IF r.next = "return" THEN "finish"
                          ELSE IF in_bounds(pos(r.s.b)) THEN "loop"
                          ELSE "post"
                 /\ avoid_self' = IF r.next = "loop" THEN FALSE
                                  ELSE avoid_self
         IN  Step(do_fire_step(S(bolt), avoid_self, in))
    /\ UNCHANGED <<special_explosion, exploder, cells, exp_map, ctl>>

(* explode() on the bolt of s from its entry to the affect pass           *)
explode_at(s, where) ==
    LET s1 == refine_for_explosion(s)
        eb == explode_begin([s1 EXCEPT !.b.target = where])
    IN  [s |-> eb.s,
         cells |-> [k \in 1 .. Len(eb.cells) |->
                      Add(pos(eb.s.b), eb.cells[k])],
         m |-> eb.m]

(* affect_endpoint after the special explosion, then do_fire's tail       *)
endpoint_rest(s) ==
    LET s1 == IF s.b.drop_item THEN drop_object(s) ELSE s
    IN  IF s1.b.is_explosion
        THEN LET ex == explode_at(s1, pos(s1.b))
             IN  [s |-> ex.s, cells |-> ex.cells, explodes |-> TRUE,
                  m |-> ex.m]
        ELSE [s |-> do_fire_tail(s1), cells |-> << >>, explodes |-> FALSE,
              m |-> exp_map]

EndTravel ==
    /\ pc = "post"
    /\ LET b1 == IF ~in_bounds(pos(bolt))
                 THEN [bolt EXCEPT
                         !.ray = regress_into_bounds(@, Max(GXM, GYM))]
                 ELSE bolt
       IN  IF b1.affects_nothing
           THEN /\ bolt' = b1 /\ pc' = "finish"
                /\ UNCHANGED <<special_explosion, world, struck, touched,
                               exploder, cells, exp_map>>
           ELSE IF b1.special_explosion
           THEN LET ex == explode_at(S(special_explosion), pos(b1))
                IN  /\ bolt' = b1
                    /\ special_explosion' = ex.s.b
                    /\ Commit(ex.s)
                    /\ cells' = ex.cells
                    /\ exp_map' = ex.m
                    /\ exploder' = "child"
                    /\ pc' = "explode"
           ELSE LET er == endpoint_rest(S(b1))
                IN  /\ bolt' = er.s.b
                    /\ Commit(er.s)
                    /\ cells' = er.cells
                    /\ exp_map' = er.m
                    /\ pc' = IF er.explodes THEN "explode" ELSE "finish"
                    /\ UNCHANGED <<special_explosion, exploder>>
    /\ UNCHANGED <<avoid_self, ctl>>

ExplosionAffectCell ==
    /\ pc = "explode"
    /\ cells # << >>
    /\ LET x == IF exploder = "child" THEN special_explosion ELSE bolt
       IN  \E in \in Inputs(x, Head(cells)) :
             LET Affected(s1) ==
                     /\ Commit(s1)
                     /\ IF exploder = "child"
                        THEN special_explosion' = s1.b /\ bolt' = bolt
                        ELSE bolt' = s1.b
                             /\ special_explosion' = special_explosion
             IN  Affected(explosion_affect_cell(S(x), Head(cells), in))
    /\ cells' = Tail(cells)
    /\ UNCHANGED <<pc, avoid_self, exploder, exp_map, ctl>>

ExplosionEnd ==
    /\ pc = "explode"
    /\ cells = << >>
    /\ IF exploder = "child"
       THEN LET er == endpoint_rest(S(bolt))
            IN  /\ bolt' = er.s.b
                /\ Commit(er.s)
                /\ cells' = er.cells
                /\ exp_map' = er.m
                /\ exploder' = "self"
                /\ pc' = IF er.explodes THEN "explode" ELSE "finish"
       ELSE LET s1 == do_fire_tail(S(bolt))
            IN  /\ bolt' = s1.b
                /\ Commit(s1)
                /\ pc' = "finish"
                /\ UNCHANGED <<cells, exploder, exp_map>>
    /\ UNCHANGED <<special_explosion, avoid_self, ctl>>

(* ---------------------------------------------------------------------- *)
(* fire() after do_fire, and the caller's code after fire()                *)
(* ---------------------------------------------------------------------- *)
fire_end(b, se, copy, secopy) ==
    LET se1 == IF b.is_tracer /\ b.special_explosion
               THEN undo_tracer(se, secopy) ELSE se
        b1  == IF b.is_tracer THEN undo_tracer(b, copy) ELSE b
        b2  == IF b1.special_explosion
               THEN [b1 EXCEPT
                       !.seen = @ \/ se1.seen,
                       !.heard = @ \/ se1.heard,
                       !.beam_cancelled = @ \/ se1.beam_cancelled,
                       !.foe_info = tracer_info_add(@, se1.foe_info),
                       !.friend_info = tracer_info_add(@, se1.friend_info)]
               ELSE b1
    IN  [b |-> b2, se |-> se1]

FinishFire ==
    /\ pc = "finish"
    /\ LET fe == fire_end(bolt, special_explosion, boltcopy, childcopy)
           after == IF runs + 1 < MaxRuns THEN "idle" ELSE "done"
       IN  CASE caller \in {"player_tracer", "zapping_tracer"}
                  /\ fe.b.beam_cancelled ->
                  /\ bolt' = fe.b
                  /\ special_explosion' = fe.se
                  /\ msgs' = msgs + 1
                  /\ pc' = after /\ runs' = runs + 1
                  /\ UNCHANGED <<grd, mons, you, cgrid, igrd, sanct, prompts,
                                 struck, touched, avoid_self, boltcopy,
                                 childcopy, caller, exploder, cells, exp_map,
                                 tallies,
                                 agent, ztype, adjust,
                                 probe>>
             [] caller = "zapping_tracer" /\ ~fe.b.beam_cancelled ->
                  /\ special_explosion' = fe.se
                  /\ LET b1 == [fe.b EXCEPT !.is_tracer = FALSE]
                         b2 == [zapping_setup(b1, ztype) EXCEPT
                                  !.path_taken = << >>]
                         df == do_fire_begin(b2)
                     IN  /\ bolt' = df.b
                         /\ boltcopy' = b2
                         /\ avoid_self' = df.avoid_self
                         /\ pc' = IF df.entered THEN "loop" ELSE "finish"
                  /\ caller' = "zapping"
                  /\ struck' = << >> /\ touched' = << >>
                  /\ runs' = runs + 1
                  /\ UNCHANGED <<world, childcopy, exploder, cells, exp_map,
                                 tallies, agent, ztype, adjust,
                                 probe>>
             [] OTHER ->
                  /\ bolt' = IF caller \in {"player_tracer", "fire_tracer"}
                             THEN [fe.b EXCEPT !.is_tracer = FALSE]
                             ELSE fe.b
                  /\ special_explosion' = fe.se
                  /\ tallies' = IF caller = "fire_tracer"
                                THEN Append(tallies,
                                            <<fe.b.foe_info,
                                              fe.b.friend_info>>)
                                ELSE tallies
                  /\ pc' = IF caller \in {"player_tracer", "fire_tracer"}
                           THEN after ELSE "done"
                  /\ runs' = runs + 1
                  /\ UNCHANGED <<world, struck, touched, avoid_self, boltcopy,
                                 childcopy, caller, exploder, cells, exp_map,
                                 agent, ztype, adjust,
                                 probe>>

Next ==
    \/ PlayerTracer
    \/ Zapping
    \/ FireTracer
    \/ Fire
    \/ DoFireStep
    \/ EndTravel
    \/ ExplosionAffectCell
    \/ ExplosionEnd
    \/ FinishFire

Spec == Init /\ [][Next]_vars

(* The steps of a firing that has been started, and the states in which    *)
(* one of them can be taken: each such step changes pc, cells, runs or     *)
(* path_taken, so Running is ENABLED <<FiringStep>>_vars.                  *)
FiringStep ==
    DoFireStep \/ EndTravel \/ ExplosionAffectCell \/ ExplosionEnd
        \/ FinishFire

Running ==
    \/ pc \in {"post", "explode", "finish"}
    \/ (pc = "loop" /\ Len(bolt.path_taken) < MaxPath)

(* fire() runs to its return once called: weak fairness of FiringStep,     *)
(* WF_vars(FiringStep), written with Running for its enabling condition.   *)
FairSpec == Spec /\ ([]<>(~Running) \/ []<><<FiringStep>>_vars)

(* ---------------------------------------------------------------------- *)
(* Explosions in two dimensions: the player zaps a fireball of radius r    *)
(* from ExpSource at ExpCentre, where it explodes                          *)
(* ---------------------------------------------------------------------- *)
MaxExpR == 3

ExpTerrains == {"open", "pillar", "statue", "door", "sanctuary", "pocket",
                "wax"}

ExpCentre(t) == IF t = "pocket" THEN <<1, 1>> ELSE <<3, 3>>
ExpSource(t) == IF t = "pocket" THEN <<1, 3>> ELSE <<1, 1>>

(* the pocket: a winding passage from the centre round to the cell two     *)
(* steps down its diagonal, all else rock; by offset from the centre       *)
PocketOpen == {<<0, 0>>, <<0, 1>>, <<0, 2>>, <<0, 3>>, <<1, 4>>, <<2, 4>>,
               <<3, 3>>, <<2, 2>>}

ExpFeat(t, d) ==
    CASE t = "pillar" /\ d = <<1, 0>> -> "DNGN_ROCK_WALL"
      [] t = "statue" /\ d = <<0, 1>> -> "DNGN_GRANITE_STATUE"
      [] t = "door" /\ d = <<-1, 0>> -> "DNGN_CLOSED_DOOR"
      [] t = "wax" /\ d = <<0, 0>> -> "DNGN_WAX_WALL"
      [] t = "pocket" /\ d \notin PocketOpen -> "DNGN_ROCK_WALL"
      [] OTHER -> "DNGN_FLOOR"

MkExpGrd(t) == [p \in Cells |-> IF ~in_bounds(p) THEN "DNGN_PERMAROCK_WALL"
                                ELSE ExpFeat(t, Sub(p, ExpCentre(t)))]

ExpCases == {c \in [terrain : ExpTerrains, r : 1 .. 2 * MaxExpR] :
                c.terrain # "pocket" => c.r <= MaxExpR}

ExpInit ==
    \E c \in ExpCases :
        LET sc == [who |-> "player", kind |-> "ZAP_FIREBALL",
                   layout |-> "open", occ |-> "none", extra |-> "none"]
            b  == [MkAim(sc) EXCEPT !.source = ExpSource(c.terrain),
                                    !.target = ExpCentre(c.terrain),
                                    !.ex_size = c.r]
        IN  /\ bolt = b
            /\ special_explosion = MkChild(sc)
            /\ grd = MkExpGrd(c.terrain)
            /\ mons = MkMons(sc)
            /\ you = [MkYou(sc) EXCEPT !.pos = ExpSource(c.terrain)]
            /\ cgrid = {} /\ igrd = {}
            /\ sanct = IF c.terrain = "sanctuary"
                       THEN {Add(ExpCentre(c.terrain), <<1, 1>>)} ELSE {}
            /\ msgs = 0 /\ prompts = 0 /\ struck = << >> /\ touched = << >>
            /\ pc = "idle" /\ avoid_self = FALSE
            /\ boltcopy = b /\ childcopy = MkChild(sc)
            /\ caller = "none" /\ runs = 0
            /\ exploder = "self" /\ cells = << >> /\ tallies = << >>
            /\ exp_map = exp_map_init(0)
            /\ agent = "player" /\ ztype = "ZAP_FIREBALL"
            /\ adjust = [original |-> 0, results |-> << >>]
            /\ probe = << >>

ExpNext ==
    \/ Zapping
    \/ DoFireStep
    \/ EndTravel
    \/ ExplosionAffectCell
    \/ ExplosionEnd
    \/ FinishFire

ExpSpec == ExpInit /\ [][ExpNext]_vars

(* ---------------------------------------------------------------------- *)
(* Cells with more than one thing in them: monster 1 fires from SourcePos  *)
(* at TargetPos along a row where the player and monster 2 stand on one    *)
(* cell, or where monster 2 stands inside the wall at <<4, 1>>             *)
(* ---------------------------------------------------------------------- *)
CellCases ==
    {c \in [kind : {"ZAP_FIRE", "ZAP_STONE_ARROW", "ZAP_SLOWING",
                    "ZAP_LIGHTNING", "ZAP_DIGGING", "ZAP_FIREBALL", "arrow",
                    "bolt of chaos", "orb of electricity",
                    "exploding arrow"},
            place : {"shared3", "shared5", "wallmon", "wallworm", "wallyou"},
            layout : {"open", "rock4", "metal4", "wax4"}] :
        /\ (c.layout = "open") <=> (c.place \in {"shared3", "shared5"})
        /\ (c.kind = "orb of electricity")
              => (c.place \in {"wallmon", "wallworm"}
                  /\ c.layout \in {"rock4", "metal4"})
        /\ (c.kind = "exploding arrow") => (c.place = "shared5")}

(* an exploding bolt of electricity, as a monster's spell builds it       *)
MkOrb(b) ==
    [zappy(b, "ZAP_FIREBALL") EXCEPT
       !.name = "orb of electricity", !.colour = "LIGHTBLUE",
       !.flavour = "BEAM_ELECTRICITY", !.real_flavour = "BEAM_ELECTRICITY"]

CellInit ==
    \E c \in CellCases :
        LET sc == [who |-> "monster", kind |-> c.kind, layout |-> c.layout,
                   occ |-> "foe", extra |-> "none"]
            at == CASE c.place = "shared3" -> <<3, 1>>
                    [] c.place = "shared5" -> TargetPos
                    [] OTHER -> <<4, 1>>
            b  == IF c.kind = "orb of electricity" THEN MkOrb(MkAim(sc))
                  ELSE MkBolt(sc)
        IN  /\ bolt = b
            /\ special_explosion = MkChild(sc)
            /\ grd = MkGrd(c.layout)
            /\ mons = [MkMons(sc) EXCEPT
                         ![2].pos = at,
                         ![2].type = IF c.place = "wallworm"
                                     THEN "MONS_ROCK_WORM" ELSE @]
            /\ you = [MkYou(sc) EXCEPT
                        !.pos = CASE c.place \in {"shared3", "wallyou"} ->
                                       <<3, 1>>
                                  [] c.place = "shared5" -> TargetPos
                                  [] OTHER -> <<6, 1>>]
            /\ cgrid = {} /\ igrd = {} /\ sanct = {}
            /\ msgs = 0 /\ prompts = 0 /\ struck = << >> /\ touched = << >>
            /\ pc = "idle" /\ avoid_self = FALSE
            /\ boltcopy = b /\ childcopy = MkChild(sc)
            /\ caller = "none" /\ runs = 0
            /\ exploder = "self" /\ cells = << >> /\ tallies = << >>
            /\ exp_map = exp_map_init(0)
            /\ agent = "monster" /\ ztype = "none"
            /\ adjust = [original |-> 0, results |-> << >>]
            /\ probe = << >>

CellNext ==
    \/ FireTracer
    \/ Fire
    \/ DoFireStep
    \/ EndTravel
    \/ ExplosionAffectCell
    \/ ExplosionEnd
    \/ FinishFire

CellSpec == CellInit /\ [][CellNext]_vars

(* ---------------------------------------------------------------------- *)
(* mons_adjust_flavoured on its own: one bolt of each flavour, one monster *)
(* of each resistance level, each damage up to MaxHurt; the function is    *)
(* called up to MaxCalls times, silently and with its flavoured effects,   *)
(* in any order                                                            *)
(* ---------------------------------------------------------------------- *)
MaxHurt == 6
MaxCalls == 3

AdjFlavours == {"BEAM_FIRE", "BEAM_STEAM", "BEAM_COLD", "BEAM_ELECTRICITY",
                "BEAM_ACID", "BEAM_POISON", "BEAM_POISON_ARROW", "BEAM_NEG",
                "BEAM_MIASMA", "BEAM_HOLY", "BEAM_ICE", "BEAM_LAVA",
                "BEAM_HELLFIRE", "BEAM_SPORE", "BEAM_MISSILE"}

AdjInit ==
    \E f \in AdjFlavours, r \in -2 .. 3, h \in 0 .. MaxHurt,
       t \in {"MONS_ORC", "MONS_FIRE_ELEMENTAL", "MONS_BALLISTOMYCETE"} :
        LET sc == [who |-> "player", kind |-> "arrow", layout |-> "open",
                   occ |-> "foe", extra |-> "none"]
            b  == [MkAim(sc) EXCEPT !.flavour = f, !.real_flavour = f]
        IN  /\ bolt = b
            /\ special_explosion = MkChild(sc)
            /\ grd = MkGrd(sc.layout)
            /\ mons = [MkMons(sc) EXCEPT ![2].res = r, ![2].type = t]
            /\ you = MkYou(sc)
            /\ cgrid = {} /\ igrd = {} /\ sanct = {}
            /\ msgs = 0 /\ prompts = 0 /\ struck = << >> /\ touched = << >>
            /\ pc = "idle" /\ avoid_self = FALSE
            /\ boltcopy = b /\ childcopy = MkChild(sc)
            /\ caller = "none" /\ runs = 0
            /\ exploder = "self" /\ cells = << >> /\ tallies = << >>
            /\ exp_map = exp_map_init(0)
            /\ agent = "player" /\ ztype = "none"
            /\ adjust = [original |-> h, results |-> << >>]
            /\ probe = << >>

(* one call of mons_adjust_flavoured on monster 2 with the bolt            *)
AdjCall(doFlavouredEffects, roll) ==
    LET Done(af) ==
            /\ adjust' = [adjust EXCEPT
                            !.results = Append(@,
                                [fx |-> doFlavouredEffects,
                                 hurted |-> af.hurted])]
            /\ msgs' = msgs + af.nmsg
            /\ mons' = [mons EXCEPT ![2].ench = @ \cup af.ench]
            /\ bolt' = [bolt EXCEPT !.obvious_effect = @ \/ af.obvious]
    IN  /\ Len(adjust.results) < MaxCalls
        /\ Done(mons_adjust_flavoured(mons[2], bolt, adjust.original,
                                      doFlavouredEffects, roll))
        /\ UNCHANGED <<special_explosion, grd, you, cgrid, igrd, sanct,
                       prompts, struck, touched, pc, avoid_self, boltcopy,
                       childcopy,
                       caller, runs, exploder, cells, exp_map, tallies,
                       agent, ztype, probe>>

AdjSilent == AdjCall(FALSE, 0)

AdjNarrate ==
    \E roll \in (IF bolt.flavour = "BEAM_POISON" THEN Coin ELSE {0}) :
        AdjCall(TRUE, roll)

AdjSpec == AdjInit /\ [][AdjSilent \/ AdjNarrate]_vars

(* ---------------------------------------------------------------------- *)
(* _test_beam_hit on its own: an attack value, a defence value and the     *)
(* three flags are drawn, and each call draws its three random numbers     *)
(* ---------------------------------------------------------------------- *)
MaxDef == 3

HitAttacks == {0, 1, 4, AUTOMATIC_HIT}

(* draws that reach the ends and the middle of the ranges rolled over      *)
HitRolls == {0, 1, 2, 749, 1499, 2999}

HitInit ==
    \E a \in HitAttacks, d \in 0 .. MaxDef, f \in [1 .. 3 -> BOOLEAN] :
        LET sc == [who |-> "player", kind |-> "arrow", layout |-> "open",
                   occ |-> "foe", extra |-> "none"]
        IN  /\ bolt = MkAim(sc)
            /\ special_explosion = MkChild(sc)
            /\ grd = MkGrd(sc.layout)
            /\ mons = MkMons(sc)
            /\ you = MkYou(sc)
            /\ cgrid = {} /\ igrd = {} /\ sanct = {}
            /\ msgs = 0 /\ prompts = 0 /\ struck = << >> /\ touched = << >>
            /\ pc = "idle" /\ avoid_self = FALSE
            /\ boltcopy = MkAim(sc) /\ childcopy = MkChild(sc)
            /\ caller = "none" /\ runs = 0
            /\ exploder = "self" /\ cells = << >> /\ tallies = << >>
            /\ exp_map = exp_map_init(0)
            /\ agent = "player" /\ ztype = "none"
            /\ adjust = [original |-> 0, results |-> << >>]
            /\ probe = [attack |-> a, defence |-> d, is_beam |-> f[1],
                        deflect |-> f[2], repel |-> f[3], results |-> << >>]

(* one call of _test_beam_hit with the drawn arguments                     *)
HitCall ==
    /\ Len(probe.results) < MaxCalls
    /\ \E r \in [r0 : HitRolls, r1 : HitRolls, r2 : HitRolls] :
          probe' = [probe EXCEPT
                      !.results =
                         Append(@, test_beam_hit(probe.attack, probe.defence,
                                                 probe.is_beam, probe.deflect,
                                                 probe.repel, r))]
    /\ UNCHANGED <<bolt, special_explosion, world, struck, touched, pc,
                   avoid_self, boltcopy, childcopy, caller, runs, exploder,
                   cells, exp_map, tallies, agent, ztype, adjust>>

HitSpec == HitInit /\ [][HitCall]_vars

(* ---------------------------------------------------------------------- *)
(* A bolt meeting one actor: affect_player or affect_monster called once   *)
(* on a bolt that has reached the cell of the player or of monster 2,      *)
(* who carries no shield, a plain one or a reflecting one; probe keeps     *)
(* which of the two is met and the draws of the call                       *)
(* ---------------------------------------------------------------------- *)
BlockCases ==
    [kind : {"arrow", "ZAP_STONE_ARROW", "ZAP_LIGHTNING"},
     target : {"you", "monster"},
     shield : {"none", "plain", "reflect"}]

BlockInit ==
    \E c \in BlockCases :
        LET sc == [who |-> IF c.target = "you" THEN "monster" ELSE "player",
                   kind |-> c.kind, layout |-> "open", occ |-> "foe",
                   extra |-> "none"]
            b0 == IF c.kind = "arrow" THEN MkBolt(sc)
                  ELSE zappy(MkAim(sc), c.kind)
            b  == [do_fire_begin(b0).b EXCEPT !.ray.pos = TargetPos]
        IN  /\ bolt = b
            /\ special_explosion = MkChild(sc)
            /\ grd = MkGrd(sc.layout)
            /\ mons = [MkMons(sc) EXCEPT
                         ![2] = IF c.target = "monster"
                                THEN [@ EXCEPT !.shield = c.shield]
                                ELSE no_monster]
            /\ you = [MkYou(sc) EXCEPT
                        !.pos = IF c.target = "you" THEN TargetPos
                                ELSE SourcePos,
                        !.shield = IF c.target = "you" THEN c.shield
                                   ELSE "none"]
            /\ cgrid = {} /\ igrd = {} /\ sanct = {}
            /\ msgs = 0 /\ prompts = 0 /\ struck = << >> /\ touched = << >>
            /\ pc = "loop" /\ avoid_self = TRUE
            /\ boltcopy = b /\ childcopy = MkChild(sc)
            /\ caller = "none" /\ runs = 0
            /\ exploder = "self" /\ cells = << >> /\ tallies = << >>
            /\ exp_map = exp_map_init(0)
            /\ agent = sc.who /\ ztype = "none"
            /\ adjust = [original |-> 0, results |-> << >>]
            /\ probe = [target |-> c.target, draws |-> << >>]

BlockDraws ==
    [yn : {TRUE}, r0 : {0}, r1 : Coin, r2 : Coin, ev : Rolls, dmg : Coin,
     acr : Coin, acr2 : {0}, acr3 : {0}, blk : Coin, res : {0}, psn : {0},
     flav : {bolt.flavour}, shift : {<<0>>}]

(* the one call, on the actor the bolt has met                            *)
BlockCall ==
    /\ probe.draws = << >>
    /\ \E in \in BlockDraws :
         LET s == IF probe.target = "you" THEN affect_player(S(bolt), in)
                  ELSE affect_monster(S(bolt), 2, in)
         IN  /\ bolt' = s.b
             /\ Commit(s)
             /\ probe' = [probe EXCEPT !.draws = <<in>>]
    /\ UNCHANGED <<special_explosion, pc, avoid_self, boltcopy, childcopy,
                   caller, runs, exploder, cells, exp_map, tallies, agent,
                   ztype, adjust>>

BlockSpec == BlockInit /\ [][BlockCall]_vars

(* ---------------------------------------------------------------------- *)
(* A bounce on its own: a bolt of chaos or of lightning has just stepped   *)
(* from an open cell into a solid one, in the open with a wall across, in  *)
(* the corridor between two walls, or at the border of the map, and        *)
(* bounce() is called once; probe keeps the perturbations drawn            *)
(* ---------------------------------------------------------------------- *)
BounceCases ==
    {c \in [kind : {"bolt of chaos", "ZAP_LIGHTNING"},
            layout : {"open", "rock4", "cell"},
            from : (2 .. 5) \X {1, 3, GYM - 2},
            dir : {Compass[i] : i \in 1 .. 8}] :
        /\ ~feat_is_solid(MkGrd(c.layout)[c.from])
        /\ feat_is_solid(MkGrd(c.layout)[Add(c.from, c.dir)])}

BounceInit ==
    \E c \in BounceCases :
        LET sc == [who |-> "player", kind |-> c.kind, layout |-> c.layout,
                   occ |-> "none", extra |-> "none"]
            b0 == IF c.kind = "bolt of chaos" THEN MkBolt(sc)
                  ELSE zappy(MkAim(sc), c.kind)
            b  == [do_fire_begin(b0).b EXCEPT
                     !.ray = [pos |-> Add(c.from, c.dir), dir |-> c.dir],
                     !.range_used = 1]
        IN  /\ bolt = b
            /\ special_explosion = MkChild(sc)
            /\ grd = MkGrd(sc.layout)
            /\ mons = MkMons(sc)
            /\ you = [MkYou(sc) EXCEPT !.pos = <<6, GYM - 2>>]
            /\ cgrid = {} /\ igrd = {} /\ sanct = {}
            /\ msgs = 0 /\ prompts = 0 /\ struck = << >> /\ touched = << >>
            /\ pc = "loop" /\ avoid_self = TRUE
            /\ boltcopy = b /\ childcopy = MkChild(sc)
            /\ caller = "none" /\ runs = 0
            /\ exploder = "self" /\ cells = << >> /\ tallies = << >>
            /\ exp_map = exp_map_init(0)
            /\ agent = "player" /\ ztype = "none"
            /\ adjust = [original |-> 0, results |-> << >>]
            /\ probe = [shifts |-> << >>]

(* perturbations of up to a quarter turn either way; the draws of one     *)
(* call are k times one of them and then another                          *)
MungeShifts == {0, 1, 2, 6, 7}
MungeDraws ==
    {[i \in 1 .. k + 1 |-> IF i <= k THEN a ELSE b] :
        k \in {0, 1, MUNGE_TRIES - 1, MUNGE_TRIES},
        a \in MungeShifts, b \in MungeShifts}

BounceCall ==
    /\ probe.shifts = << >>
    /\ \E sh \in MungeDraws :
         LET s == bounce(S(bolt), [shift |-> sh])
         IN  /\ bolt' = s.b
             /\ Commit(s)
             /\ probe' = [probe EXCEPT !.shifts = sh]
    /\ UNCHANGED <<special_explosion, pc, avoid_self, boltcopy, childcopy,
                   caller, runs, exploder, cells, exp_map, tallies, agent,
                   ztype, adjust>>

BounceSpec == BounceInit /\ [][BounceCall]_vars

(* ---------------------------------------------------------------------- *)
(* The damage of a non-enchantment bolt: affect_player or affect_monster   *)
(* called once on a bolt that always hits, for every dice definition,      *)
(* armour class, resistance level and submersion within the bounds, live   *)
(* and (on a monster) as a tracer; probe keeps who is met, the draws of    *)
(* the call, what determine_damage returned for them and whether the       *)
(* tracer's tally was asked to divide by a pre-armour damage of 0          *)
(* ---------------------------------------------------------------------- *)
MaxDice == 2
MaxAc == 2
DamageFlavours == {"BEAM_MISSILE", "BEAM_FIRE", "BEAM_ELECTRICITY",
                   "BEAM_FRAG", "BEAM_LAVA", "BEAM_HELLFIRE"}
DamageRes == -1 .. 3

DamageCases ==
    {c \in [target : {"you", "monster"}, tracer : BOOLEAN,
            num : 0 .. MaxDice, size : 0 .. MaxDice + 1,
            flavour : DamageFlavours, ac : 0 .. MaxAc, res : DamageRes,
            wet : BOOLEAN, light : BOOLEAN] :
       /\ c.target = "you" => ~c.tracer
       /\ c.wet => c.target = "monster"
       /\ c.light => c.target = "you" /\ c.flavour = "BEAM_FRAG"}

DamageInit ==
    \E c \in DamageCases :
        LET sc == [who |-> IF c.target = "you" THEN "monster" ELSE "player",
                   kind |-> "arrow", layout |-> "open", occ |-> "foe",
                   extra |-> "spot"]
            b0 == [MkAim(sc) EXCEPT
                     !.name = "shard", !.flavour = c.flavour,
                     !.real_flavour = c.flavour, !.hit = AUTOMATIC_HIT,
                     !.damage = dice_def(c.num, c.size),
                     !.is_tracer = c.tracer]
            b  == [do_fire_begin(b0).b EXCEPT !.ray.pos = TargetPos]
        IN  /\ bolt = b
            /\ special_explosion = MkChild(sc)
            /\ grd = MkGrd(sc.layout)
            /\ mons = [MkMons(sc) EXCEPT
                         ![2] = IF c.target = "monster"
                                THEN [@ EXCEPT !.ac = c.ac, !.res = c.res,
                                               !.submerged = c.wet]
                                ELSE no_monster]
            /\ you = [MkYou(sc) EXCEPT
                        !.pos = IF c.target = "you" THEN TargetPos
                                ELSE SourcePos,
                        !.ac = c.ac, !.res = c.res,
                        !.light_armour = c.light]
            /\ cgrid = {} /\ igrd = {} /\ sanct = {}
            /\ msgs = 0 /\ prompts = 0 /\ struck = << >> /\ touched = << >>
            /\ pc = "loop" /\ avoid_self = TRUE
            /\ boltcopy = b /\ childcopy = MkChild(sc)
            /\ caller = "none" /\ runs = 0
            /\ exploder = "self" /\ cells = << >> /\ tallies = << >>
            /\ exp_map = exp_map_init(0)
            /\ agent = sc.who /\ ztype = "none"
            /\ adjust = [original |-> 0, results |-> << >>]
            /\ probe = [target |-> c.target, draws |-> << >>,
                        out |-> << >>, div0 |-> FALSE]

DamageDraws ==
    LET live == ~bolt.is_tracer
        span == bolt.damage.num * bolt.damage.size - bolt.damage.num
        ac   == 0 .. (IF probe.target = "you" THEN you.ac ELSE mons[2].ac)
        frag == live /\ bolt.flavour = "BEAM_FRAG"
    IN  [yn : {TRUE}, r0 : {0}, r1 : {0}, r2 : {0}, ev : {0},
         dmg : IF live /\ span > 0 THEN 0 .. span ELSE {0},
         acr : IF live THEN ac ELSE {0},
         acr2 : IF frag THEN ac ELSE {0},
         acr3 : IF frag THEN ac ELSE {0},
         blk : {0}, res : {0}, psn : {0}, flav : {bolt.flavour},
         shift : {<<0>>}]

(* the one call, on the actor the bolt has met; a tracer's tally with a    *)
(* pre-armour damage of 0 under a positive final damage is a division by   *)
(* zero, after which nothing is known of the program: the call is recorded *)
(* as such and the state left alone                                        *)
DamageCall ==
    /\ probe.draws = << >>
    /\ \E in \in DamageDraws :
         LET dd == determine_damage(S(bolt), 2, in)
             out == IF probe.target = "you" THEN << >>
                    ELSE <<[ok |-> dd.ok, preac |-> dd.preac,
                            postac |-> dd.postac, final |-> dd.final]>>
         IN  IF probe.target = "monster" /\ bolt.is_tracer /\ dd.ok
                /\ dd.final > 0 /\ dd.preac = 0
             THEN /\ probe' = [probe EXCEPT !.draws = <<in>>, !.out = out,
                                            !.div0 = TRUE]
                  /\ UNCHANGED <<bolt, world, struck, touched>>
             ELSE LET s == IF probe.target = "you"
                           THEN affect_player(S(bolt), in)
                           ELSE affect_monster(S(bolt), 2, in)
                  IN  /\ bolt' = s.b
                      /\ Commit(s)
                      /\ probe' = [probe EXCEPT !.draws = <<in>>,
                                                !.out = out]
    /\ UNCHANGED <<special_explosion, pc, avoid_self, boltcopy, childcopy,
                   caller, runs, exploder, cells, exp_map, tallies, agent,
                   ztype, adjust>>

DamageSpec == DamageInit /\ [][DamageCall]_vars

(* ---------------------------------------------------------------------- *)
(* Properties                                                              *)
(* ---------------------------------------------------------------------- *)

(* C1: while a firing runs in tracer mode, no step of it (travel loop,     *)
(* cell interaction, endpoint, explosion) changes the terrain, any         *)
(* monster's or the player's hit points or enchantments, or the items.     *)
C1_TracerLeavesWorld ==
    [][(bolt.is_tracer /\ pc \in {"loop", "post", "explode"})
         => (grd' = grd /\ mons' = mons /\ you' = you /\ igrd' = igrd
             /\ cgrid' = cgrid)]_vars

(* a tracer has finished a path with a monster on it and a wall to dig or  *)
(* an item to burn                                                         *)
C1_Witness ==
    /\ pc = "finish" /\ bolt.is_tracer /\ runs = 1
    /\ Len(bolt.path_taken) >= 4
    /\ bolt.foe_info.count + bolt.friend_info.count > 0
    /\ \/ \E p \in Cells : grd[p] = "DNGN_ROCK_WALL"
       \/ is_fiery(bolt)

(* C2 as stated: while is_tracer is set no step asks a yes/no question.    *)
C2_TracerNeverPrompts ==
    [][(bolt.is_tracer /\ pc \in {"loop", "post", "explode"})
         => prompts' = prompts]_vars

(* C2 amended: a yes/no question is asked only by a step of a firing in    *)
(* tracer mode whose thrower is the player; a live firing and a monster's  *)
(* tracer never ask.                                                       *)
C2_PromptsOnlyInPlayerTracer ==
    [][prompts' # prompts
         => (bolt.is_tracer /\ YOU_KILL(bolt.thrower)
             /\ pc \in {"loop", "explode"})]_vars

(* a player's tracer has asked, and was told to go on                      *)
C2_Witness ==
    /\ prompts > 0 /\ bolt.is_tracer /\ YOU_KILL(bolt.thrower)
    /\ pc = "loop" /\ ~bolt.beam_cancelled

(* C3 as stated: no step of a firing in tracer mode prints a message.      *)
C3_TracerNeverPrints ==
    [][(bolt.is_tracer /\ pc \in {"loop", "post", "explode"})
         => msgs' = msgs]_vars

(* C4 as stated: two fire_tracer runs in succession on one bolt leave the  *)
(* same foe and friend tallies.                                            *)
C4_SameTallies ==
    (Len(tallies) = 2 /\ bolt.real_flavour # "BEAM_CHAOS")
        => tallies[1] = tallies[2]

(* C5 as stated: when a tracer firing has returned, the caller's bolt has  *)
(* the hit, range and passed_target it was handed to fire() with.          *)
C5_CallerBoltKept ==
    (pc \in {"idle", "done"} /\ runs > 0
     /\ caller \in {"fire_tracer", "player_tracer"})
        => (bolt.hit = boltcopy.hit /\ bolt.range = boltcopy.range
            /\ bolt.passed_target = boltcopy.passed_target)

(* C6 as stated: when the travel loop has exited, range_used <= range.     *)
C6_ExitWithinRange ==
    (pc = "post") => (bolt.range_used <= bolt.range)

(* C6 amended: every iteration of the travel loop starts with range_used   *)
(* <= range, and after the first with range_used < range; the loop's exit  *)
(* promises no more than that.                                             *)
C6_LoopHeadWithinRange ==
    (pc = "loop") => /\ bolt.range_used <= bolt.range
                     /\ (bolt.path_taken # << >>
                           => bolt.range_used < bolt.range)

(* the loop has exited with more range spent than the bolt had             *)
C6_Witness ==
    pc = "post" /\ bolt.range_used > bolt.range /\ Len(bolt.path_taken) >= 2

(* C7: an iteration of the travel loop never ends with less range_used     *)
(* than it started with.                                                   *)
C7_RangeUsedMonotone ==
    [][pc = "loop" => bolt'.range_used >= bolt.range_used]_vars

(* an iteration in which finish_beam ran at a wall: the range was spent    *)
(* to the full, plus the step                                              *)
C7_Witness ==
    /\ pc = "post" /\ bolt.range_used = bolt.range + 1
    /\ Len(bolt.path_taken) >= 2
    /\ cell_is_solid(S(bolt), bolt.path_taken[Len(bolt.path_taken)])

(* C8: a firing that is in its travel loop leaves the loop.                *)
C8_LoopExits ==
    (pc = "loop") ~> (pc \in {"post", "finish"})

(* a chaos bolt has bounced, got its range back, and left the loop         *)
C8_Witness ==
    /\ pc = "post" /\ bolt.real_flavour = "BEAM_CHAOS"
    /\ bolt.range > FireRange

C12_ReflectRetargets ==
    [][(/\ pc = "loop" /\ bolt'.reflections # bolt.reflections
        /\ ~in_bounds(bolt.bounce_pos))
         => /\ bolt'.reflections = bolt.reflections + 1
            /\ bolt'.target = bolt.source
            /\ bolt'.source = pos(bolt)]_vars

(* a bolt reflected by the monster at the target is on its way back        *)
C12_Witness ==
    /\ pc = "loop" /\ bolt.reflections = 1
    /\ bolt.target = SourcePos /\ bolt.source = TargetPos
    /\ mons[2].pos = TargetPos /\ mons[2].shield = "reflect"
    /\ pos(bolt)[1] < TargetPos[1]

(* C20: when fire() returns on a bolt with a special_explosion child, the  *)
(* parent's foe_info and friend_info are what the parent had accumulated   *)
(* plus the child's, in count, power, hurt and helped alike, and its       *)
(* beam_cancelled is set exactly if the parent's or the child's was.       *)
C20_ChildTalliesMerged ==
    [][(pc = "finish" /\ bolt.special_explosion)
         => /\ \A f \in {"count", "power", "hurt", "helped"} :
                 /\ bolt'.foe_info[f]
                      = bolt.foe_info[f] + special_explosion.foe_info[f]
                 /\ bolt'.friend_info[f]
                      = bolt.friend_info[f] + special_explosion.friend_info[f]
            /\ bolt'.beam_cancelled
                 = (bolt.beam_cancelled \/ special_explosion.beam_cancelled)]_vars

(* fire() has returned on the player's tracer of an exploding arrow that   *)
(* asked twice and was cancelled in the child's explosion, parent and      *)
(* child each having counted the friend                                    *)
C20_Witness ==
    /\ pc = "done" /\ bolt.special_explosion /\ bolt.beam_cancelled
    /\ special_explosion.beam_cancelled
    /\ special_explosion.friend_info.count > 0
    /\ special_explosion.friend_info.power > 0
    /\ bolt.friend_info.count > special_explosion.friend_info.count
    /\ bolt.friend_info.power > special_explosion.friend_info.power
    /\ prompts = 2

(* C11 as stated: once beam_cancelled is set on the bolt in flight, or on  *)
(* the child whose explosion is running, the firing goes straight to its   *)
(* return: no further loop iteration, no explosion started, no explosion   *)
(* cell processed, no further question asked.                              *)
C11_CancelAborts ==
    [][(/\ pc \in {"loop", "post", "explode"}
        /\ \/ bolt.beam_cancelled
           \/ (exploder = "child" /\ special_explosion.beam_cancelled))
         => (pc' = "finish" /\ cells' = cells /\ prompts' = prompts)]_vars

(* C19 as stated: zapping or player_tracer called with a zap type that     *)
(* has no entry in zap_data fires nothing: no cell is visited, nobody is   *)
(* struck, nothing is asked or printed, no tally is made.                  *)
C19_UnknownZapIsNoOp ==
    (ztype = "NUM_ZAPS")
        => /\ bolt.path_taken = << >>
           /\ struck = << >> /\ prompts = 0 /\ msgs = 0
           /\ bolt.foe_info.count = 0

(* C13 as stated: the step that reflects a bolt which has bounced off a    *)
(* wall earlier in the firing makes the cell of that bounce, bounce_pos,   *)
(* the bolt's new target.                                                  *)
C13_ReflectHeadsForBounce ==
    [][(/\ pc = "loop" /\ bolt'.reflections = bolt.reflections + 1
        /\ in_bounds(bolt.bounce_pos))
         => bolt'.target = bolt.bounce_pos]_vars

(* The explosion in progress: its radius, the offsets its cost map         *)
(* includes, the moment its affect pass starts, and whether every cell     *)
(* within r steps of c is plain floor outside any sanctuary.               *)
ExpR == Min(bolt.ex_size, MAX_EXPLOSION_RADIUS)

Included == {d \in DOMAIN exp_map : exp_map[d] < INT_MAX}

AffectPassStarts ==
    /\ pc = "explode" /\ exploder = "self"
    /\ Len(cells) = Cardinality(Included)

OpenAround(c, r) ==
    \A d \in Deltas(r) :
        /\ in_bounds(Add(c, d)) /\ grd[Add(c, d)] = "DNGN_FLOOR"
        /\ Add(c, d) \notin sanct

(* C14 as stated: an explosion of radius 2 with nothing but floor within   *)
(* reach affects exactly the 25 cells of the square of Chebyshev radius 2  *)
(* round its centre.                                                       *)
C14_AffectsSquare ==
    (AffectPassStarts /\ ExpR = 2 /\ OpenAround(pos(bolt), 2))
        => /\ Len(cells) = 25
           /\ {cells[k] : k \in 1 .. Len(cells)}
                = {Add(pos(bolt), d) : d \in Deltas(2)}

(* C14 amended: an explosion of radius r with nothing but floor within     *)
(* reach affects, once each, exactly the cells at an offset (dx, dy) from  *)
(* the centre with dx*dx + dy*dy <= r*(r+1); for r = 2 these are the 21    *)
(* cells of the square without its four corners.                           *)
C14_AffectsDisc ==
    (AffectPassStarts /\ OpenAround(pos(bolt), ExpR))
        => /\ {cells[k] : k \in 1 .. Len(cells)}
                = {Add(pos(bolt), d) :
                     d \in {e \in Deltas(ExpR) :
                              abs2(e) <= ExpR * (ExpR + 1)}}
           /\ Len(cells)
                = Cardinality({cells[k] : k \in 1 .. Len(cells)})
           /\ (ExpR = 2) => Len(cells) = 21

(* a radius-2 explosion in the open is about to affect its 21 cells, the   *)
(* corners of the square not among them                                    *)
C14_Witness ==
    /\ AffectPassStarts /\ ExpR = 2 /\ OpenAround(pos(bolt), 2)
    /\ Len(cells) = 21
    /\ \A k \in 1 .. Len(cells) : cells[k] # Add(pos(bolt), <<2, 2>>)
    /\ \E k \in 1 .. Len(cells) : cells[k] = Add(pos(bolt), <<2, 1>>)

(* Orders in which the eight neighbours can be explored: Compass turned    *)
(* and mirrored, and the four axes before the four diagonals.              *)
Orders ==
    {[i \in 1 .. 8 |->
        Compass[(((IF rev THEN 8 - i ELSE i - 1) + k) % 8) + 1]] :
        k \in 0 .. 7, rev \in BOOLEAN}
    \cup {[i \in 1 .. 8 |-> Compass[<<1, 3, 5, 7, 2, 4, 6, 8>>[i]]],
          [i \in 1 .. 8 |-> Compass[<<8, 6, 4, 2, 7, 5, 3, 1>>[i]]]}

(* The cheapest admissible paths, computed without any search order: a     *)
(* cell admits the blast unless determine_affected_cells turns back at it; *)
(* a step from d to e costs 17 if it reverses d's x or y, else 5; a path   *)
(* is admissible if every cell on it admits the blast and is reached at a  *)
(* cost of at most 10 r.  CheapestAfter(M, r, n) relaxes every step n      *)
(* times; no admissible path has more than 2 r steps.                      *)
Admits(d, r) ==
    LET loc  == Add(pos(bolt), d)
        feat == Grd(S(bolt), loc)
    IN  /\ rdist(d) <= 9 /\ abs2(d) <= r * (r + 1)
        /\ map_bounds(loc) /\ loc \notin sanct
        /\ \/ ~feat_is_solid(feat)
           \/ (d = <<0, 0>> /\ feat_is_wall(feat)
               /\ affects_wall(bolt, feat))

StepCost(d, e) ==
    IF d[1] * (e[1] - d[1]) < 0 \/ d[2] * (e[2] - d[2]) < 0 THEN 17 ELSE 5

(* M is a set of pairs <<cell, cost>>, one for each cell reached so far    *)
Arrivals(M, e, r) ==
    {p[2] + StepCost(p[1], e) :
        p \in {q \in M : /\ rdist(Sub(e, q[1])) = 1
                         /\ q[2] + StepCost(q[1], e) <= 10 * r}}

Least(a) == CHOOSE c \in a : \A x \in a : c <= x

RECURSIVE CheapestAfter(_, _, _)
CheapestAfter(M, r, n) ==
    IF n = 0 THEN M
    ELSE CheapestAfter(
           {<<e, Least(Arrivals(M, e, r)
                         \cup {q[2] : q \in {x \in M : x[1] = e}})>> :
              e \in {d \in Deltas(r) :
                       /\ Admits(d, r)
                       /\ \/ \E q \in M : q[1] = d
                          \/ Arrivals(M, d, r) # {}}},
           r, n - 1)

Cheapest(r) ==
    LET M == CheapestAfter(IF Admits(<<0, 0>>, r) THEN {<<<<0, 0>>, 0>>}
                           ELSE {},
                           r, 2 * r)
    IN  [d \in Deltas(r + 1) |->
           IF \E q \in M : q[1] = d
           THEN (CHOOSE q \in M : q[1] = d)[2] ELSE INT_MAX]

(* C15: for the radius and terrain of the explosion, the cost map of       *)
(* determine_affected_cells is the same whichever order the eight          *)
(* neighbours are explored in, and gives each included cell the least cost *)
(* of an admissible path from the centre.                                  *)
C15_OrderFreeCheapest ==
    AffectPassStarts
        => /\ \A o \in Orders :
                 dac_visit(o, S(bolt), exp_map_init(ExpR), <<0, 0>>, 0, ExpR)
                   = exp_map
           /\ exp_map = Cheapest(ExpR)

(* an explosion of radius 3 beside a pillar: the cell behind the pillar    *)
(* is reached round it, at 5 + 17                                          *)
C15_Witness ==
    /\ AffectPassStarts /\ ExpR = 3
    /\ grd[Add(pos(bolt), <<1, 0>>)] = "DNGN_ROCK_WALL"
    /\ exp_map[<<1, 0>>] = INT_MAX
    /\ exp_map[<<2, 0>>] = 22 /\ exp_map[<<3, 0>>] = 27

(* the cell k steps from the centre in direction d, as an offset           *)
Along(d, k) == <<k * d[1], k * d[2]>>

(* C16 as stated: along each of the eight straight lines out of the        *)
(* centre, of two included cells the farther never costs less.             *)
C16_MonotoneAlongLines ==
    AffectPassStarts
        => \A i \in 1 .. 8 : \A j, k \in 0 .. ExpR :
             (/\ j < k
              /\ Along(Compass[i], j) \in Included
              /\ Along(Compass[i], k) \in Included)
                => exp_map[Along(Compass[i], j)]
                     <= exp_map[Along(Compass[i], k)]

(* C16 amended: along each of the eight straight lines out of the centre,  *)
(* as far as no cell of the line is left out, the cell k steps out costs   *)
(* exactly 5 k; past a cell that is left out the costs of the line need    *)
(* not grow with the distance.                                             *)
C16_UnbrokenLineCosts ==
    AffectPassStarts
        => \A i \in 1 .. 8 : \A k \in 0 .. ExpR :
             (\A j \in 0 .. k : Along(Compass[i], j) \in Included)
                => exp_map[Along(Compass[i], k)] = 5 * k

(* an explosion of radius 6 in the winding passage: the unbroken line      *)
(* down from the centre costs 5, 10, 15; on the diagonal the first cell is *)
(* rock and the second, reached only from the third, costs 17 more than it *)
C16_Witness ==
    /\ AffectPassStarts /\ ExpR = 6
    /\ exp_map[<<0, 1>>] = 5 /\ exp_map[<<0, 2>>] = 10
    /\ exp_map[<<0, 3>>] = 15
    /\ exp_map[<<1, 1>>] = INT_MAX
    /\ exp_map[<<3, 3>>] = 42 /\ exp_map[<<2, 2>>] = 59

(* the flavours C17 lists                                                  *)
Elements == {"BEAM_FIRE", "BEAM_STEAM", "BEAM_COLD", "BEAM_ELECTRICITY",
             "BEAM_ACID", "BEAM_POISON", "BEAM_NEG", "BEAM_HELLFIRE",
             "BEAM_ICE", "BEAM_LAVA"}

FullyResists == mons_res(mons[2], bolt.flavour) = 3

C18_SilentAndNarratedAgree ==
    \A j, k \in DOMAIN adjust.results :
        adjust.results[j].hurted = adjust.results[k].hurted

(* negative energy of damage 4 against a monster that does not resist it:  *)
(* silent, narrated (the monster is drained), silent again, 4 each time    *)
C18_Witness ==
    /\ bolt.flavour = "BEAM_NEG" /\ mons[2].res = 0
    /\ adjust.original = 4
    /\ Len(adjust.results) = 3
    /\ ~adjust.results[1].fx /\ adjust.results[2].fx
    /\ ~adjust.results[3].fx
    /\ "drained" \in mons[2].ench /\ bolt.obvious_effect /\ msgs = 0
    /\ \A k \in 1 .. 3 : adjust.results[k].hurted = 4

(* the bolt that is in affect_cell in the step from the current state      *)
Acting == IF pc = "explode" /\ exploder = "child" THEN special_explosion
          ELSE bolt

(* the step is one call of affect_cell                                     *)
AffectCellStep ==
    \/ pc = "loop" /\ ~bolt.affects_nothing
    \/ pc = "explode" /\ cells # << >>

(* the live monster standing on the player's cell, NON_MONSTER if none     *)
Sharer == monster_at(S(Acting), you.pos)

Called(log, who) == \E k \in DOMAIN log : log[k] = who

(* C21: in a call of affect_cell that affects the player on a cell a       *)
(* monster shares (and that is not the thrower's own first cell), the      *)
(* monster is affected in that call if and only if the bolt is a beam or   *)
(* an explosion.                                                           *)
C21_SharedCell ==
    [][(/\ AffectCellStep
        /\ ~(pc = "loop" /\ avoid_self)
        /\ Sharer # NON_MONSTER
        /\ Called(touched', <<"you", 0>>))
          => (Called(touched', <<"monster", Sharer>>)
                <=> (Acting.is_beam \/ Acting.is_explosion))]_vars

(* a bolt of fire has passed the shared cell and called both occupants     *)
C21_Witness ==
    /\ bolt.name = "bolt of fire" /\ ~bolt.is_tracer
    /\ you.pos = <<3, 1>> /\ mons[2].pos = <<3, 1>>
    /\ touched = <<<<"you", 0>>, <<"monster", 2>>>>
    /\ struck = <<<<3, 1>>, <<3, 1>>>>

(* C22: one call of affect_cell calls affect_player at most once and       *)
(* affect_monster at most once on any monster: no actor occurs twice in    *)
(* the log of the call.                                                    *)
C22_OncePerPass ==
    \A j, k \in DOMAIN touched : touched[j] = touched[k] => j = k

(* a live bolt of fire has burnt monster 2 inside the wax wall, melted the *)
(* wall and, still on that cell, not called the monster again              *)
C22_Witness ==
    /\ bolt.name = "bolt of fire" /\ ~bolt.is_tracer
    /\ mons[2].pos = <<4, 1>> /\ pos(bolt) = <<4, 1>>
    /\ grd[<<4, 1>>] = "DNGN_FLOOR"
    /\ touched = <<<<"monster", 2>>>> /\ struck = <<<<4, 1>>>>

(* C23: in an iteration of the travel loop that goes on to advance the     *)
(* ray, the cell the ray is advanced from is not the target of a bolt that *)
(* stops at its target (explosion, big cloud, aimed at a spot): on its     *)
(* target such a bolt leaves the loop with the ray where it is.            *)
C23_StopsAtTarget ==
    [][(/\ pc = "loop" /\ pc' = "loop"
        /\ (bolt'.is_explosion \/ bolt'.is_big_cloud \/ bolt'.aimed_at_spot))
          => ray_regress(bolt'.ray).pos # bolt'.target]_vars

(* a stone arrow aimed at the spot TargetPos has missed the monster there  *)
(* and left the loop on that cell with range to spare                      *)
C23_Witness ==
    /\ pc = "post" /\ bolt.name = "stone arrow" /\ bolt.aimed_at_spot
    /\ pos(bolt) = TargetPos /\ bolt.target = TargetPos
    /\ monster_at(S(bolt), TargetPos) # NON_MONSTER /\ struck = << >>
    /\ bolt.range_used < bolt.range /\ ~bolt.beam_cancelled
    /\ bolt.path_taken[Len(bolt.path_taken)] = TargetPos

(* the travel step is a call of affect_cell by an enchantment other than   *)
(* digging in which affect_player or affect_monster dealt with an actor (a *)
(* live enchantment passes over a submerged monster)                       *)
EnchantmentHit ==
    /\ pc = "loop" /\ ~bolt.affects_nothing
    /\ is_enchantment(bolt) /\ bolt.flavour # "BEAM_DIGGING"
    /\ touched' # << >>
    /\ \A k \in DOMAIN touched' :
          touched'[k][1] = "monster"
             => (bolt.is_tracer \/ ~mons[touched'[k][2]].submerged)

PlayersTracer(b) == b.is_tracer /\ b.beam_source = NON_MONSTER

C24_TracerFliesOn ==
    /\ pc = "loop" /\ PlayersTracer(bolt) /\ bolt.flavour = "BEAM_SLOW"
    /\ bolt.foe_info.count = 1 /\ ~bolt.beam_cancelled
    /\ pos(bolt)[1] > TargetPos[1] /\ bolt.range_used < bolt.range

FirstStep == pc = "loop" /\ bolt.path_taken = << >>

Remaining(b) == b.range - b.range_used

(* the travel step bounced the bolt: bounce() records the cell in          *)
(* bounce_pos, which only a reflection clears again                        *)
Bounced ==
    /\ pc = "loop" /\ bolt'.bounce_pos # bolt.bounce_pos
    /\ in_bounds(bolt'.bounce_pos)

(* C26 as stated: a bounce puts the bolt back on a cell that is not solid  *)
(* and takes 2 off its remaining range, whatever the flavour.              *)
C26_BounceCostsTwo ==
    [][Bounced =>
         /\ ~feat_is_solid(grd'[bolt'.bounce_pos])
         /\ Remaining(bolt') <= Remaining(bolt) - BOUNCE_COST]_vars

(* C26: a bounce puts the bolt back on a cell that is not solid and adds 2 *)
(* to range_used (the step adds its own unit); the range of a bolt that is *)
(* not chaos stays as it was, so its remaining range drops by the 2, while *)
(* the range of a chaos bolt grows by the same 2.                          *)
C26_BounceCostsTwoButChaos ==
    [][Bounced =>
         /\ ~feat_is_solid(grd'[bolt'.bounce_pos])
         /\ bolt'.range = bolt.range
                          + (IF bolt.real_flavour = "BEAM_CHAOS"
                             THEN BOUNCE_COST ELSE 0)
         /\ \/ bolt'.beam_cancelled
            \/ bolt'.range_used >= bolt.range_used + BOUNCE_COST + 1]_vars

(* a bolt of chaos has bounced off the wall: it is back on open floor with *)
(* its range grown by 2, heading away from the wall                        *)
C26_Witness ==
    /\ pc = "loop" /\ bolt.real_flavour = "BEAM_CHAOS"
    /\ bolt.bounce_pos # <<0, 0>> /\ ~feat_is_solid(grd[bolt.bounce_pos])
    /\ ~feat_is_solid(grd[pos(bolt)])
    /\ bolt.range = FireRange + BOUNCE_COST /\ bolt.range_used >= 3

(* the k-th cell back along the ray from the cell the bolt stands on       *)
Back(k) == Sub(bolt.ray.pos, Along(bolt.ray.dir, k))

StopsRegress(p) == p = bolt.source \/ ~feat_is_solid(grd[p])

(* the nearest earlier cell of the ray that is not solid, or the source    *)
NearestOpen ==
    Back(CHOOSE k \in 1 .. Max(GXM, GYM) :
            /\ StopsRegress(Back(k))
            /\ \A j \in 1 .. k - 1 : ~StopsRegress(Back(j)))

(* the travel step takes an explosion into a solid cell away from its      *)
(* source that it neither affects nor bounces off                          *)
BlastMeetsWall ==
    /\ pc = "loop" /\ ~bolt.affects_nothing /\ bolt.is_explosion
    /\ feat_is_solid(grd[pos(bolt)]) /\ pos(bolt) # bolt.source
    /\ ~affects_wall(bolt, grd[pos(bolt)])
    /\ ~is_bouncy(bolt, grd[pos(bolt)])

C27_WitnessLive ==
    /\ pc = "explode" /\ exploder = "self" /\ ~bolt.is_tracer
    /\ bolt.name = "fireball" /\ feat_is_solid(grd[TargetPos])
    /\ bolt.ray.pos = Sub(TargetPos, <<1, 0>>)
    /\ bolt.target = bolt.ray.pos /\ bolt.in_explosion_phase

(* C28: while a bolt explodes, in_explosion_phase is set and pos() is its  *)
(* target; the flood fill was run around that target (its own cell has     *)
(* cost 0 unless it is solid or sanctuary, and every cell still to be      *)
(* affected is the target plus an offset the fill included); and no step   *)
(* of the explosion, the last included, leaves the target changed.         *)
C28_CentreFixed ==
    [][pc = "explode" =>
         /\ Acting.in_explosion_phase /\ pos(Acting) = Acting.target
         /\ \A k \in DOMAIN cells :
               Sub(cells[k], Acting.target) \in Included
         /\ \/ exp_map[<<0, 0>>] = 0
            \/ is_sanctuary(S(Acting), Acting.target)
            \/ feat_is_solid(grd[Acting.target])
         /\ IF exploder = "child"
            THEN special_explosion'.target = special_explosion.target
            ELSE bolt'.target = bolt.target]_vars

(* the explosion carried by a missile has affected all its cells, the      *)
(* monster on its centre among them, and is over; its target is still the  *)
(* cell the missile ended on                                               *)
C28_Witness ==
    /\ pc = "explode" /\ exploder = "child" /\ cells = << >>
    /\ bolt.special_explosion /\ ~bolt.is_tracer
    /\ special_explosion.in_explosion_phase
    /\ special_explosion.target = pos(bolt)
    /\ exp_map[<<0, 0>>] = 0 /\ Called(struck, special_explosion.target)

(* the cell of the acting explosion at offset d from its centre            *)
BlastCell(d) == Add(Acting.target, d)

(* C29: a cell in the affected set of an explosion is not in a sanctuary   *)
(* and is not solid (wall, secret door, closed door, statue, trees),       *)
(* unless it is the centre and a wall that the flavour affects.            *)
C29_NoSolidAffected ==
    pc = "explode" =>
        \A d \in Included :
            /\ ~is_sanctuary(S(Acting), BlastCell(d))
            /\ feat_is_solid(Grd(S(Acting), BlastCell(d)))
                  => /\ d = <<0, 0>>
                     /\ feat_is_wall(Grd(S(Acting), BlastCell(d)))
                     /\ affects_wall(Acting, Grd(S(Acting), BlastCell(d)))

(* the tracer of a fireball aimed at a wax wall explodes on it: the wall   *)
(* cell is in the affected set, with the open cells round it               *)
C29_Witness ==
    /\ pc = "explode" /\ bolt.is_tracer /\ bolt.flavour = "BEAM_FIRE"
    /\ grd[bolt.target] = "DNGN_WAX_WALL"
    /\ <<0, 0>> \in Included /\ Cardinality(Included) > 1

(* a fireball explodes next to a closed door, which is left out of the     *)
(* affected set while the cell on the other side of the centre is in it    *)
C29_WitnessDoor ==
    /\ pc = "explode" /\ grd[BlastCell(<<-1, 0>>)] = "DNGN_CLOSED_DOOR"
    /\ <<-1, 0>> \notin Included /\ <<1, 0>> \in Included

(* a sequence of cells or offsets runs outwards from c, none twice         *)
Outwards(seq, c) ==
    /\ \A j, k \in DOMAIN seq :
          j < k => /\ rdist(Sub(seq[j], c)) <= rdist(Sub(seq[k], c))
                   /\ seq[j] # seq[k]

(* C30: the cells an explosion has still to affect are in order of         *)
(* non-decreasing Chebyshev distance from its centre, none of them twice,  *)
(* and when the pass starts they are the included cells, the centre first  *)
(* if it is one; the sweep of the radius lists every offset of the square  *)
(* of that radius once, the centre first, in the same order.               *)
C30_SweepOutwardsOnce ==
    /\ pc = "explode" => Outwards(cells, Acting.target)
    /\ AffectPassStarts =>
          /\ {cells[k] : k \in DOMAIN cells} = {BlastCell(d) : d \in Included}
          /\ <<0, 0>> \in Included => cells[1] = bolt.target
          /\ LET sw == radial_sweep(ExpR)
             IN  /\ Len(sw) = (2 * ExpR + 1) * (2 * ExpR + 1)
                 /\ {sw[k] : k \in DOMAIN sw} = Deltas(ExpR)
                 /\ sw[1] = <<0, 0>> /\ Outwards(sw, <<0, 0>>)

(* the tracer of a blast of radius 2 beside a pillar has affected its      *)
(* centre and the seven open cells next to it, and has the outer ring left *)
C30_Witness ==
    /\ pc = "explode" /\ bolt.is_tracer /\ ExpR = 2
    /\ grd[BlastCell(<<1, 0>>)] = "DNGN_ROCK_WALL"
    /\ cells # << >> /\ Len(cells) < Cardinality(Included) - 7
    /\ \A k \in DOMAIN cells : rdist(Sub(cells[k], bolt.target)) = 2

(* determine_affected_cells once more, with the depth of each call counted *)
(* (the outermost call has depth 1): md.m is the cost map, md.deep the     *)
(* greatest depth of any call made so far                                  *)
RECURSIVE dac_deep_visit(_, _, _, _, _, _)
RECURSIVE dac_deep_recurse(_, _, _, _, _, _, _)
dac_deep_visit(s, md, delta, count, r, depth) ==
    LET loc == Add(pos(s.b), delta)
        md1 == [md EXCEPT !.deep = Max(@, depth)]
    IN  IF rdist(delta) > 9 \/ abs2(delta) > r * (r + 1) \/ count > 10 * r
           \/ ~map_bounds(loc) \/ is_sanctuary(s, loc)
        THEN md1
        ELSE
        LET feat == Grd(s, loc)
            blocked ==
                \/ /\ \/ feat_is_wall(feat)
                      \/ feat = "DNGN_SECRET_DOOR"
                      \/ feat_is_closed_door(feat)
                   /\ ~(delta = <<0, 0>> /\ affects_wall(s.b, feat))
                \/ (feat_is_solid(feat) /\ ~feat_is_wall(feat))
        IN  IF blocked THEN md1
            ELSE dac_deep_recurse(
                   s, [md1 EXCEPT !.m[delta] = Min(count, @)],
                   delta, count, r, 1, depth)

dac_deep_recurse(s, md, delta, count, r, i, depth) ==
    IF i > 8 THEN md
    ELSE LET new_delta == Add(delta, Compass[i])
             cadd == IF delta[1] * Compass[i][1] < 0
                        \/ delta[2] * Compass[i][2] < 0
                     THEN 17 ELSE 5
         IN  IF rdist(new_delta) > 9 \/ exp_map_at(md.m, new_delta) <= count
             THEN dac_deep_recurse(s, md, delta, count, r, i + 1, depth)
             ELSE dac_deep_recurse(
                    s, dac_deep_visit(s, md, new_delta, count + cadd, r,
                                      depth + 1),
                    delta, count, r, i + 1, depth)

DeepFill ==
    dac_deep_visit(S(bolt), [m |-> exp_map_init(ExpR), deep |-> 0],
                   <<0, 0>>, 0, ExpR, 1)

(* C31: the flood fill of an explosion comes to an end having made no call *)
(* deeper than 2 * r + 2, and no cell it included has an arrival cost      *)
(* above 10 * r.                                                           *)
C31_FillBounded ==
    AffectPassStarts
        => /\ DeepFill.m = exp_map
           /\ DeepFill.deep <= 2 * ExpR + 2
           /\ \A d \in Included : exp_map[d] <= 10 * ExpR

(* the fill of a radius-4 explosion in the winding pocket went more than   *)
(* 4 calls deep and reached a cell at a cost above 5 * r                   *)
C31_Witness ==
    /\ AffectPassStarts /\ ExpR = 4 /\ DeepFill.deep > 4
    /\ \E d \in Included : exp_map[d] > 20 /\ exp_map[d] <= 40

(* C32 as stated: every call of _test_beam_hit with the attack value       *)
(* AUTOMATIC_HIT reports a hit, whatever the defence and the flags.        *)
C32_AutomaticHitAlways ==
    probe.attack = AUTOMATIC_HIT
        => \A k \in DOMAIN probe.results : probe.results[k]

(* C32: every call of _test_beam_hit with the attack value AUTOMATIC_HIT   *)
(* and neither deflect nor repel set reports a hit, whatever the defence   *)
(* and is_beam.                                                            *)
C32_AutomaticHitUndeflected ==
    (probe.attack = AUTOMATIC_HIT /\ ~probe.deflect /\ ~probe.repel)
        => \A k \in DOMAIN probe.results : probe.results[k]

(* an automatic hit against the highest defence, not deflected or          *)
(* repelled, has hit in every one of its calls                             *)
C32_Witness ==
    /\ probe.attack = AUTOMATIC_HIT /\ probe.defence = MaxDef
    /\ ~probe.deflect /\ ~probe.repel
    /\ Len(probe.results) = MaxCalls
    /\ \A k \in DOMAIN probe.results : probe.results[k]

(* a repelled beam with the attack value AUTOMATIC_HIT has hit once (the   *)
(* roll left the value at AUTOMATIC_HIT) and missed once                   *)
C32_RepelledMisses ==
    /\ probe.attack = AUTOMATIC_HIT /\ probe.is_beam /\ probe.repel
    /\ ~probe.deflect /\ probe.results = <<TRUE, FALSE>>

(* ---------------------------------------------------------------------- *)
(* C33: shield and to-hit roll (BlockSpec)                                 *)
(* ---------------------------------------------------------------------- *)
ShieldMet ==
    /\ probe.draws # << >>
    /\ is_blockable(boltcopy)
    /\ (IF probe.target = "you" THEN you.shield ELSE mons[2].shield) # "none"

(* the shield roll of the call is one that blocks                         *)
ShieldWouldBlock ==
    random2((boltcopy.hit * 130) \div 100, probe.draws[1].blk) < 1

(* the to-hit roll of the call is one that hits                           *)
ToHitLands ==
    test_beam_hit(boltcopy.hit,
                  random2(IF probe.target = "you" THEN you.ev
                          ELSE mons_ev(mons[2]), probe.draws[1].ev),
                  boltcopy.is_beam, FALSE, FALSE, probe.draws[1])

(* the bolt was stopped or turned back and its target left alone          *)
Blocked ==
    /\ struck = << >>
    /\ \/ bolt.reflections > boltcopy.reflections
       \/ bolt.range_used = bolt.range

(* C33 as stated: for a blockable bolt striking a target that carries a   *)
(* shield, the shield check is made before the to-hit roll, for the       *)
(* player and for a monster alike: a shield roll that blocks stops or     *)
(* reflects the bolt whatever the to-hit roll would have been             *)
C33_ShieldBeforeToHit ==
    (ShieldMet /\ ShieldWouldBlock) => Blocked

(* C33 amended: the player's shield is tried before the to-hit roll, so   *)
(* a shield roll that blocks always stops or reflects the bolt; a         *)
(* monster's shield is tried only after the to-hit roll has hit, so a     *)
(* bolt that misses the monster is never blocked and flies on             *)
C33_PlayerShieldBeforeToHit ==
    ShieldMet
        => /\ (probe.target = "you") => (Blocked <=> ShieldWouldBlock)
           /\ (probe.target = "monster")
                 => /\ Blocked <=> (ToHitLands /\ ShieldWouldBlock)
                    /\ ~ToHitLands
                          => /\ bolt.range_used = boltcopy.range_used
                             /\ bolt.reflections = boltcopy.reflections

(* a bolt the monster's shield roll would block misses it and flies on    *)
C33_Witness ==
    /\ ShieldMet /\ probe.target = "monster"
    /\ ShieldWouldBlock /\ ~ToHitLands
    /\ ~Blocked /\ bolt.range_used < bolt.range

(* a bolt that would have missed the player is reflected by the shield    *)
C33_WitnessPlayer ==
    /\ ShieldMet /\ probe.target = "you" /\ you.shield = "reflect"
    /\ ShieldWouldBlock /\ ~ToHitLands
    /\ Blocked /\ bolt.reflections = 1

(* ---------------------------------------------------------------------- *)
(* C35: the perturbation of a bounced bolt of chaos (BounceSpec)           *)
(* ---------------------------------------------------------------------- *)
(* the ray bounce() hands to _munge_bounced_bolt: the plain reflection    *)
Reflected ==
    LET s == S(boltcopy)
    IN  ray_bounce(s, regress_while_solid(s, boltcopy.ray))

(* the loop of _munge_bounced_bolt run on that ray with the draws made    *)
Munged == munge_tries(S(boltcopy), Reflected, probe.shifts, 0)

NextOpen(ray) ==
    /\ in_bounds(ray_advance(ray).pos)
    /\ ~cell_is_solid(S(bolt), ray_advance(ray).pos)

(* C35: _munge_bounced_bolt makes at most 20 perturbation attempts;       *)
(* afterwards the ray is either a perturbed ray whose next cell is in     *)
(* bounds and not solid, or exactly the unperturbed reflection; a bolt    *)
(* whose real flavour is not chaos is never perturbed and its range is    *)
(* not changed                                                            *)
C35_MungeBounded ==
    (probe.shifts # << >>)
        => IF boltcopy.real_flavour = "BEAM_CHAOS"
           THEN /\ Munged.tries <= MUNGE_TRIES
                /\ bolt.ray = Munged.ray
                /\ \/ /\ Munged.broke
                      /\ bolt.ray.pos = Reflected.pos
                      /\ bolt.ray.dir =
                            Rotate(Reflected.dir,
                                   munge_shift(probe.shifts,
                                               Munged.tries - 1))
                      /\ NextOpen(bolt.ray)
                   \/ /\ ~Munged.broke
                      /\ Munged.tries = MUNGE_TRIES
                      /\ bolt.ray = Reflected
           ELSE /\ bolt.ray = Reflected
                /\ bolt.range = boltcopy.range

(* the twentieth try is the first whose next cell is open: the ray is     *)
(* perturbed, and it differs from the reflection                          *)
C35_Witness ==
    /\ probe.shifts # << >> /\ boltcopy.real_flavour = "BEAM_CHAOS"
    /\ Munged.broke /\ Munged.tries = MUNGE_TRIES
    /\ bolt.ray # Reflected /\ NextOpen(bolt.ray)

(* all twenty tries fail, and a twenty-first draw that would have passed  *)
(* is not tried: the ray is the reflection                                *)
C35_WitnessGivenUp ==
    /\ Len(probe.shifts) = MUNGE_TRIES + 1
    /\ boltcopy.real_flavour = "BEAM_CHAOS"
    /\ ~Munged.broke /\ bolt.ray = Reflected
    /\ NextOpen([Reflected EXCEPT
                   !.dir = Rotate(@, probe.shifts[MUNGE_TRIES + 1])])

(* a bolt of lightning bounces unperturbed                                *)
C35_WitnessPlain ==
    /\ probe.shifts # << >> /\ boltcopy.real_flavour # "BEAM_CHAOS"
    /\ probe.shifts[1] # 0
    /\ bolt.ray = Reflected /\ bolt.range = boltcopy.range
    /\ bolt.range_used = boltcopy.range_used + BOUNCE_COST

(* ---------------------------------------------------------------------- *)
(* C36: the monster inside a wall (CellSpec)                               *)
(* ---------------------------------------------------------------------- *)
(* the cell the coming call of affect_cell is made on                     *)
CellAt == IF pc = "explode" THEN Head(cells) ELSE pos(bolt)

(* the live monster standing in that cell if the cell is solid            *)
WallMonster ==
    IF feat_is_solid(grd[CellAt]) THEN monster_at(S(Acting), CellAt)
    ELSE NON_MONSTER

(* the flavours the bolt can have in the call: its own, or for a bolt of  *)
(* chaos any of those chaos takes                                         *)
FlavoursAt ==
    IF Acting.real_flavour = "BEAM_CHAOS" THEN ChaosFlavours
    ELSE {Acting.flavour}

Conducted(f) ==
    /\ f = "BEAM_ELECTRICITY" /\ grd[CellAt] = "DNGN_METAL_WALL"
    /\ ~Acting.is_explosion /\ ~Acting.is_big_cloud

(* C36: in a call of affect_cell on a solid cell with a monster in it     *)
(* (the thrower on its own first cell apart), a monster the wall shields  *)
(* is handed to affect_monster by a bolt that is not an enchantment only  *)
(* if the bolt is electricity, neither explosion nor big cloud, and the   *)
(* wall is metal, and in that case it is; an enchantment is handed every  *)
(* monster in a wall, shielded or not.                                    *)
C36_WallShields ==
    [][(/\ AffectCellStep
        /\ ~(pc = "loop" /\ avoid_self)
        /\ WallMonster # NON_MONSTER)
          => /\ (\A f \in FlavoursAt : f \in Enchantments)
                   => Called(touched', <<"monster", WallMonster>>)
             /\ mons_wall_shielded(mons[WallMonster])
                   => /\ Called(touched', <<"monster", WallMonster>>)
                         => \E f \in FlavoursAt :
                               f \in Enchantments \/ Conducted(f)
                      /\ (\A f \in FlavoursAt :
                            f \in Enchantments \/ Conducted(f))
                         => Called(touched', <<"monster", WallMonster>>)]_vars

(* a live bolt of lightning has struck the rock worm in the metal wall    *)
C36_Witness ==
    /\ bolt.name = "bolt of lightning" /\ ~bolt.is_tracer
    /\ grd[<<4, 1>>] = "DNGN_METAL_WALL"
    /\ mons[2].type = "MONS_ROCK_WORM" /\ mons[2].pos = <<4, 1>>
    /\ touched = <<<<"monster", 2>>>> /\ struck = <<<<4, 1>>>>

(* an orb of electricity has met the metal wall with the rock worm in it  *)
(* and left the worm alone                                                *)
C36_WitnessOrb ==
    /\ bolt.name = "orb of electricity" /\ ~bolt.is_tracer
    /\ grd[<<4, 1>>] = "DNGN_METAL_WALL"
    /\ mons[2].type = "MONS_ROCK_WORM" /\ mons[2].pos = <<4, 1>>
    /\ Len(bolt.path_taken) > 0
    /\ bolt.path_taken[Len(bolt.path_taken)] = <<4, 1>>
    /\ touched = << >> /\ struck = << >> /\ msgs > 0

(* a live bolt of lightning has met the rock wall with the rock worm in   *)
(* it and left the worm alone                                             *)
C36_WitnessRock ==
    /\ bolt.name = "bolt of lightning" /\ ~bolt.is_tracer
    /\ grd[<<4, 1>>] = "DNGN_ROCK_WALL"
    /\ mons[2].type = "MONS_ROCK_WORM" /\ mons[2].pos = <<4, 1>>
    /\ bolt.bounce_pos = <<3, 1>>
    /\ touched = << >> /\ struck = << >> /\ msgs > 0

(* slowing has reached the rock worm inside the rock wall                 *)
C36_WitnessEnchantment ==
    /\ bolt.flavour = "BEAM_SLOW" /\ ~bolt.is_tracer
    /\ grd[<<4, 1>>] = "DNGN_ROCK_WALL"
    /\ mons[2].type = "MONS_ROCK_WORM" /\ mons[2].pos = <<4, 1>>
    /\ touched = <<<<"monster", 2>>>> /\ struck = <<<<4, 1>>>>

(* ---------------------------------------------------------------------- *)
(* C37: what a tracer leaves of the bolt (CellSpec)                        *)
(* ---------------------------------------------------------------------- *)
(* the nine fields of b have the values they have in copy                 *)
Restored(b, copy) ==
    /\ b.target = copy.target /\ b.source = copy.source
    /\ b.aimed_at_spot = copy.aimed_at_spot
    /\ b.range_used = copy.range_used /\ b.auto_hit = copy.auto_hit
    /\ b.ray = copy.ray /\ b.colour = copy.colour
    /\ b.flavour = copy.flavour /\ b.real_flavour = copy.real_flavour

(* C37: when fire() returns from a tracer, target, source, aimed_at_spot, *)
(* range_used, auto_hit, ray, colour, flavour and real_flavour of the     *)
(* bolt are what they were when fire() was entered, and so are those of   *)
(* the bolt special_explosion points to, if there is one (a caller that   *)
(* fires the bolt again at once is left out for the bolt itself).         *)
C37_TracerRestores ==
    [][(pc = "finish" /\ bolt.is_tracer)
          => /\ (caller' = caller) => Restored(bolt', boltcopy)
             /\ bolt.special_explosion
                   => Restored(special_explosion', childcopy)]_vars

(* the tracer of an orb of electricity has returned: it had turned        *)
(* LIGHTCYAN, grown to radius 2 and moved its target and ray, and the     *)
(* bolt has its colour, target and ray back but keeps the radius          *)
C37_Witness ==
    /\ caller = "fire_tracer" /\ pc = "idle" /\ runs = 1
    /\ bolt.name = "orb of electricity"
    /\ bolt.colour = "LIGHTBLUE" /\ bolt.ex_size = 2
    /\ bolt.target = TargetPos /\ bolt.range_used = 0
    /\ bolt.ray = boltcopy.ray /\ Len(bolt.path_taken) > 1
    /\ bolt.path_taken[Len(bolt.path_taken)] # TargetPos

(* the tracer of an exploding arrow has returned: its fiery explosion had *)
(* gone off around the target and has its target and range_used back      *)
C37_WitnessChild ==
    /\ caller = "fire_tracer" /\ pc = "idle" /\ runs = 1
    /\ bolt.special_explosion
    /\ special_explosion.in_explosion_phase
    /\ Restored(special_explosion, childcopy)
    /\ Restored(bolt, boltcopy)
    /\ Len(bolt.path_taken) > 1

(* ---------------------------------------------------------------------- *)
(* C38: an explosion on its way (CellSpec)                                 *)
(* ---------------------------------------------------------------------- *)
(* the coming step is a cell of the travel of an exploding bolt that is   *)
(* no enchantment                                                         *)
BlastTravels ==
    /\ pc = "loop" /\ ~bolt.affects_nothing
    /\ bolt.is_explosion /\ ~bolt.in_explosion_phase
    /\ ~is_enchantment(bolt)

C38_WitnessBlast ==
    /\ pc = "explode" /\ bolt.name = "fireball" /\ ~bolt.is_tracer
    /\ bolt.in_explosion_phase
    /\ you.pos = <<3, 1>> /\ bolt.target = <<3, 1>>
    /\ you.hp < 20 /\ struck # << >>

(* the caster of the bolt is among the actors the step handed to it       *)
CasterTouched(b, t) ==
    \E k \in 1 .. Len(t) :
       \/ YOU_KILL(b.thrower) /\ t[k][1] = "you"
       \/ ~YOU_KILL(b.thrower) /\ MON_KILL(b.thrower) /\ t[k][1] = "monster"

(* C39: for a bolt not aimed at the caster's own cell, the first          *)
(* iteration of the travel loop, on the source cell, leaves range_used as  *)
(* it was and hands the caster's side to the bolt not at all (not the      *)
(* player for a bolt thrown by the player, no monster for a bolt thrown by *)
(* a monster), and the loop goes on; every later iteration adds at least 1 *)
(* to range_used.                                                          *)
C39_SourceCellFree ==
    [][(pc = "loop" /\ ~bolt.aimed_at_feet) =>
         IF bolt.path_taken = << >>
         THEN /\ pos(bolt) = bolt.source
              /\ bolt'.range_used = bolt.range_used
              /\ ~CasterTouched(bolt, touched')
              /\ bolt'.path_taken = <<bolt.source>>
         ELSE /\ bolt'.range_used >= bolt.range_used + 1
              /\ Len(bolt'.path_taken) = Len(bolt.path_taken) + 1]_vars

(* a live bolt of fire thrown by the player has left the player's cell     *)
(* with nothing spent and the player untouched, and has then been charged  *)
(* for the next cell                                                       *)
C39_Witness ==
    /\ pc = "loop" /\ ~bolt.is_tracer /\ ~bolt.aimed_at_feet
    /\ bolt.name = "bolt of fire" /\ YOU_KILL(bolt.thrower)
    /\ Len(bolt.path_taken) = 2 /\ bolt.path_taken[1] = you.pos
    /\ you.hp = 20 /\ bolt.range_used >= 1

(* a bolt thrown by a monster has taken its first step on the monster's    *)
(* cell: nothing is spent and no monster was handed to it                  *)
C39_WitnessMonster ==
    /\ pc = "loop" /\ ~bolt.aimed_at_feet /\ MON_KILL(bolt.thrower)
    /\ ~YOU_KILL(bolt.thrower)
    /\ Len(bolt.path_taken) = 1 /\ bolt.range_used = 0
    /\ monster_at(S(bolt), bolt.source) # NON_MONSTER
    /\ touched = << >>

(* the one call of the damage check has been made                         *)
DamageDone == probe.draws # << >>

(* what the armour took off the damage roll in that call                  *)
ArmourTaken ==
    LET in == probe.draws[1]
        ac == IF probe.target = "you" THEN you.ac ELSE mons[2].ac
        one(x) == IF probe.target = "you" THEN random2(1 + ac, x)
                  ELSE maybe_random2(1 + ac, ~bolt.is_tracer, x)
    IN  IF bolt.flavour = "BEAM_FRAG" /\ ~(probe.target = "you"
                                            /\ you.light_armour)
        THEN one(in.acr) + one(in.acr2) + one(in.acr3)
        ELSE IF probe.target = "you" /\ bolt.flavour = "BEAM_ELECTRICITY"
        THEN one(in.acr) \div 2
        ELSE one(in.acr)

(* C34: the damage a non-enchantment bolt does to an actor is never        *)
(* negative, whatever the roll, the armour class and the resistance level: *)
(* the player's hit points never rise through the hit, and for a monster   *)
(* the damage after armour is the roll less the armour clamped at 0, the   *)
(* final damage after resistance is at least 0 and is what a live bolt     *)
(* takes off the monster's hit points.                                     *)
C34_DamageNeverNegative ==
    DamageDone =>
       IF probe.target = "you" THEN you.hp <= 20
       ELSE LET dd == probe.out[1]
            IN  dd.ok => /\ dd.postac = Max(dd.preac - ArmourTaken, 0)
                         /\ dd.final >= 0
                         /\ ~bolt.is_tracer => mons[2].hp = 10 - dd.final

(* the armour took more than a live bolt's roll off a monster: the damage  *)
(* is clamped to 0 and the monster keeps its hit points                    *)
C34_Witness ==
    /\ DamageDone /\ probe.target = "monster" /\ ~bolt.is_tracer
    /\ probe.out[1].ok /\ probe.out[1].preac - ArmourTaken < 0
    /\ probe.out[1].final = 0 /\ mons[2].hp = 10 /\ struck # << >>

(* the armour took more than the roll off the player                      *)
C34_WitnessPlayer ==
    /\ DamageDone /\ probe.target = "you" /\ bolt.flavour = "BEAM_FRAG"
    /\ bolt.damage = dice_def(1, 1) /\ ArmourTaken > 1
    /\ you.hp = 20 /\ struck # << >>

(* a vulnerable monster took more than the damage left after armour       *)
C34_WitnessVulnerable ==
    /\ DamageDone /\ probe.target = "monster" /\ ~bolt.is_tracer
    /\ mons[2].res < 0 /\ probe.out[1].ok
    /\ probe.out[1].final > probe.out[1].postac /\ mons[2].hp < 10

C40_WitnessZero ==
    /\ DamageDone /\ bolt.is_tracer /\ probe.out[1].ok
    /\ probe.out[1].preac = 0 /\ probe.out[1].final = 0
    /\ bolt.foe_info.count = 0 /\ bolt.foe_info.power = 0

====
